---------------------------- MODULE Spec2Model ----------------------------
(***************************************************************************)
(* A model of the scanner (src/src/lexer.rs) and of the recursive-descent  *)
(* parser (src/src/parsing.rs, src/src/ast.rs) of the language front end.  *)
(*                                                                         *)
(* A source is a sequence of characters; a character is a one-character    *)
(* string, except the two non-ASCII scalars "U+00E9" (e with acute, two    *)
(* UTF-8 bytes, alphabetic but not ASCII) and "U+00A0" (no-break space,    *)
(* two UTF-8 bytes, Unicode white space).  An interned name (Spur) is      *)
(* modelled by its text: interning maps equal text to equal keys.          *)
(* A u64 is four 16-bit limbs, least significant first, so that the        *)
(* checked arithmetic of the integer literals keeps its 64-bit width.      *)
(***************************************************************************)
EXTENDS Integers, Sequences, FiniteSets, TLC

VARIABLES lexer,    \* the Lexer under test: [location, source, chars]
          op,       \* the operation called last
          ret,      \* what it returned
          prev,     \* the Lexer before that call
          peeked,   \* what the last peek_token returned since the last consuming call
          peeks,    \* the number of peek_token calls since the last consuming call
          calls,    \* the number of parsing functions called on the Lexer
          expected, \* the kind the last expect_token! was called for, if any
          parsed,   \* the outcome of parse(filepath, source), once called
          loop,     \* the loop run one iteration at a time, and how far it is
          printed   \* what pretty_print_ast wrote for the parsed nodes, once called

vars == <<lexer, op, ret, prev, peeked, peeks, calls, expected, parsed, loop, printed>>

----------------------------------------------------------------------------
(* Bounds of the model.                                                    *)

MaxPieces == 2      \* a scanner source is at most this many lexemes
MaxDigits == 2      \* a generated integer literal has at most this many digits
MaxPeeks == 2       \* peek_token calls counted between two consuming calls
MaxExprTokens == 2  \* a generated expression has at most this many tokens
MaxOps == 2         \* a generated operator chain has at most this many operators
MaxProgTokens == 1  \* a generated program text has at most this many tokens
MaxCalls == 1       \* parsing functions called on one Lexer
MaxListItems == 4   \* a generated list has at most this many elements and commas

----------------------------------------------------------------------------
(* Characters.                                                             *)

LowerCase == <<"a","b","c","d","e","f","g","h","i","j","k","l","m",
               "n","o","p","q","r","s","t","u","v","w","x","y","z">>
UpperCase == <<"A","B","C","D","E","F","G","H","I","J","K","L","M",
               "N","O","P","Q","R","S","T","U","V","W","X","Y","Z">>
DecimalDigits == <<"0","1","2","3","4","5","6","7","8","9">>

Range(s) == {s[i] : i \in DOMAIN s}
IndexIn(s, c) == CHOOSE i \in DOMAIN s : s[i] = c

is_ascii_alphabetic(c) == c \in Range(LowerCase) \cup Range(UpperCase)
is_ascii_digit(c) == c \in Range(DecimalDigits)
is_ascii_alphanumeric(c) == is_ascii_alphabetic(c) \/ is_ascii_digit(c)
is_whitespace(c) == c \in {" ", "\n", "\t", "\r", "U+00A0"}

None == [some |-> FALSE]
Some(v) == [some |-> TRUE, v |-> v]

\* char::to_digit(radix): the digit's value when it is below the radix.
to_digit(c, radix) ==
    LET v == IF is_ascii_digit(c) THEN IndexIn(DecimalDigits, c) - 1
             ELSE IF c \in Range(LowerCase) THEN 9 + IndexIn(LowerCase, c)
             ELSE IF c \in Range(UpperCase) THEN 9 + IndexIn(UpperCase, c)
             ELSE radix
    IN IF v < radix THEN Some(v) ELSE None

\* The length of the character's UTF-8 encoding.
len_utf8(c) == IF c \in {"U+00E9", "U+00A0"} THEN 2 ELSE 1

\* str::char_indices: the byte index of every character of text, which is the
\* number of bytes of the characters before it (and, after the last character,
\* the length in bytes).
CharIndices(text) ==
    [i \in 1..(Len(text) + 1) |->
        Cardinality({kb \in (1..(i - 1)) \X (1..4) : kb[2] <= len_utf8(text[kb[1]])})]

\* A &str: its characters, and the byte index of each (of its end, for the
\* index after the last character).
Str(text) == [text |-> text, index |-> CharIndices(text)]

str_len(source) == source.index[Len(source.text) + 1]

\* &source[from..to]: the characters whose bytes lie in from..to.
Slice(source, from, to) ==
    LET is == {i \in DOMAIN source.text : from <= source.index[i]
                                          /\ source.index[i] < to}
    IN IF is = {} THEN <<>>
       ELSE SubSeq(source.text, CHOOSE i \in is : \A j \in is : i <= j,
                                CHOOSE i \in is : \A j \in is : j <= i)

----------------------------------------------------------------------------
(* u64 arithmetic on four 16-bit limbs.                                    *)

LimbRadix == 2^16
U64(n) == <<n, 0, 0, 0>>
U64_MAX == <<LimbRadix - 1, LimbRadix - 1, LimbRadix - 1, LimbRadix - 1>>

checked_mul_wrapping(value, k) ==
    LET p1 == value[1] * k
        p2 == value[2] * k + (p1 \div LimbRadix)
        p3 == value[3] * k + (p2 \div LimbRadix)
        p4 == value[4] * k + (p3 \div LimbRadix)
    IN Some(<<p1 % LimbRadix, p2 % LimbRadix, p3 % LimbRadix, p4 % LimbRadix>>)

\* u64::checked_mul by a small factor: None on overflow.
checked_mul(value, k) ==
    LET p1 == value[1] * k
        p2 == value[2] * k + (p1 \div LimbRadix)
        p3 == value[3] * k + (p2 \div LimbRadix)
        p4 == value[4] * k + (p3 \div LimbRadix)
    IN IF p4 \div LimbRadix # 0 THEN None
       ELSE Some(<<p1 % LimbRadix, p2 % LimbRadix, p3 % LimbRadix, p4 % LimbRadix>>)

\* u64::checked_add of a small addend: None on overflow.
checked_add(value, d) ==
    LET s1 == value[1] + d
        s2 == value[2] + (s1 \div LimbRadix)
        s3 == value[3] + (s2 \div LimbRadix)
        s4 == value[4] + (s3 \div LimbRadix)
    IN IF s4 \div LimbRadix # 0 THEN None
       ELSE Some(<<s1 % LimbRadix, s2 % LimbRadix, s3 % LimbRadix, s4 % LimbRadix>>)

\* Division of a u64 by a small divisor: quotient and remainder.
DivSmall(v, b) ==
    LET t4 == v[4]
        t3 == (t4 % b) * LimbRadix + v[3]
        t2 == (t3 % b) * LimbRadix + v[2]
        t1 == (t2 % b) * LimbRadix + v[1]
    IN [q |-> <<t1 \div b, t2 \div b, t3 \div b, t4 \div b>>, r |-> t1 % b]

RECURSIVE Repr(_, _, _)
\* The last n digits of v in base b, and what is left of v above them: the
\* lower half of the digits, then the upper half.
Repr(v, b, n) ==
    IF n = 0 THEN [digits |-> <<>>, rest |-> v]
    ELSE IF n = 1 THEN [digits |-> <<DivSmall(v, b).r>>, rest |-> DivSmall(v, b).q]
    ELSE LET low == Repr(v, b, n \div 2)
         IN IF Len(low.digits) = n \div 2
            THEN LET high == Repr(low.rest, b, n - n \div 2)
                 IN IF Len(high.digits) = n - n \div 2
                    THEN [digits |-> high.digits \o low.digits, rest |-> high.rest]
                    ELSE high
            ELSE low

\* The digits without their leading zeros.
StripZeros(ds) ==
    LET nonzero == {k \in DOMAIN ds : ds[k] # 0}
    IN IF nonzero = {} THEN <<>>
       ELSE SubSeq(ds, CHOOSE k \in nonzero : \A j \in nonzero : k <= j, Len(ds))

----------------------------------------------------------------------------
(* The scanner.                                                            *)

FilePath == "test.lang"

Location(filepath, position, line, column) ==
    [filepath |-> filepath, position |-> position, line |-> line, column |-> column]

Ok(v) == [ok |-> TRUE, v |-> v]
Err(kind, loc) == [ok |-> FALSE, error |-> [kind |-> kind, location |-> loc]]

Token(kind, loc) == [kind |-> kind, location |-> loc]
Kind(tag) == [tag |-> tag]
NameKind(text) == [tag |-> "Name", name |-> text]
IntegerKind(value) == [tag |-> "Integer", value |-> value]

\* Lexer::new: position 0, line 1, column 1, the iterator at the first character.
Lexer_new(filepath, source) ==
    [location |-> Location(filepath, 0, 1, 1), source |-> Str(source), chars |-> 1]

location(self) == self.location

\* The character number position of the source, the position counted in
\* characters.
peek_char_nth(self) ==
    IF self.location.position + 1 \in DOMAIN self.source.text
    THEN Some(self.source.text[self.location.position + 1]) ELSE None

\* Lexer::peek_char: the character of the source at the recorded position.
peek_char(self) ==
    LET at == {i \in DOMAIN self.source.text :
                 self.source.index[i] = self.location.position}
    IN IF at = {} THEN None ELSE Some(self.source.text[CHOOSE i \in at : TRUE])

next_char_chars(self) ==
    IF self.chars > Len(self.source.text) THEN [ret |-> None, self |-> self]
    ELSE LET c == self.source.text[self.chars]
         IN [ret |-> Some(c),
             self |-> [self EXCEPT
                !.chars = self.chars + 1,
                !.location.position = self.location.position + 1,
                !.location.line = IF c = "\n" THEN self.location.line + 1
                                  ELSE self.location.line,
                !.location.column = IF c = "\n" THEN 1
                                    ELSE self.location.column + 1]]

\* Lexer::next_char: [ret, self], the character consumed and the Lexer after.
\* The saturating additions never saturate: a source is shorter than usize::MAX.
next_char(self) ==
    IF self.chars > Len(self.source.text) THEN [ret |-> None, self |-> self]
    ELSE LET c == self.source.text[self.chars]
         IN [ret |-> Some(c),
             self |-> [self EXCEPT
                !.chars = self.chars + 1,
                !.location.position = self.source.index[self.chars + 1],
                !.location.line = IF c = "\n" THEN self.location.line + 1
                                  ELSE self.location.line,
                !.location.column = IF c = "\n" THEN 1
                                    ELSE self.location.column + 1]]

RECURSIVE NameLoop(_)
\* The while loop of an identifier: consume while alphanumeric or '_'.
NameLoop(self) ==
    LET p == peek_char(self)
    IN IF p.some /\ (is_ascii_alphanumeric(p.v) \/ p.v = "_")
       THEN NameLoop(next_char(self).self)
       ELSE self

\* The match on the identifier's text.
KeywordOrName(text) ==
    IF text = <<"l","e","t">> THEN Kind("Let")
    ELSE IF text = <<"f","n">> THEN Kind("Fn")
    ELSE IF text = <<"r","e","t","u","r","n">> THEN Kind("Return")
    ELSE NameKind(text)

IntegerBase_octal16(self, c) ==
    LET p == peek_char(self)
    IN IF c = "0" /\ p.some /\ p.v \in {"x", "d", "o", "b"}
       THEN [base |-> CASE p.v = "x" -> 16 [] p.v = "d" -> 10
                        [] p.v = "o" -> 16 [] p.v = "b" -> 2,
             self |-> next_char(self).self]
       ELSE [base |-> 10, self |-> self]

\* The base of a literal whose first character c has been consumed.
IntegerBase(self, c) ==
    LET p == peek_char(self)
    IN IF c = "0" /\ p.some /\ p.v \in {"x", "d", "o", "b"}
       THEN [base |-> CASE p.v = "x" -> 16 [] p.v = "d" -> 10
                        [] p.v = "o" -> 8 [] p.v = "b" -> 2,
             self |-> next_char(self).self]
       ELSE [base |-> 10, self |-> self]

DigitTooLargeError_at_start(self, base, start_location) ==
    Err([tag |-> "DigitTooLarge", base |-> base], start_location)

\* The error of a character that is no digit of the base.
DigitTooLargeError(self, base, start_location) ==
    Err([tag |-> "DigitTooLarge", base |-> base], self.location)

\* One iteration of the while loop of an integer literal, on
\* [self, value, state, error]: state is "running" until the loop is left,
\* by its condition ("break") or by an error ("error").
IntegerStep(st, base, start_location) ==
    LET p == peek_char(st.self)
    IN IF st.state # "running" THEN st
       ELSE IF ~(p.some /\ is_ascii_alphanumeric(p.v))
       THEN [st EXCEPT !.state = "break"]
       ELSE LET digit == to_digit(p.v, base)
            IN IF ~digit.some
               THEN [st EXCEPT !.state = "error",
                               !.error = DigitTooLargeError(st.self, base, start_location)]
               ELSE LET s == next_char(st.self).self
                        m == checked_mul(st.value, base)
                        a == IF m.some THEN checked_add(m.v, digit.v) ELSE None
                    IN IF ~a.some
                       THEN [st EXCEPT !.self = s, !.state = "error",
                                       !.error = Err(Kind("IntegerTooLarge"),
                                                     start_location)]
                       ELSE [st EXCEPT !.self = s, !.value = a.v]

RECURSIVE IntegerIterate(_, _, _, _)
\* n iterations of the loop, the first half of them and then the rest.
IntegerIterate(st, base, start_location, n) ==
    IF n = 0 THEN st
    ELSE IF n = 1 THEN IntegerStep(st, base, start_location)
    ELSE LET half == IntegerIterate(st, base, start_location, n \div 2)
         IN IF half.state = "running"
            THEN IntegerIterate(half, base, start_location, n - n \div 2)
            ELSE half

\* The while loop of an integer literal and the token after it: [ret, self].
\* The loop runs at most once per character of the source, and once more to end.
IntegerLoop(self, value, base, start_location) ==
    LET end == IntegerIterate([self |-> self, value |-> value,
                               state |-> "running", error |-> None],
                              base, start_location, Len(self.source.text) + 1)
    IN IF end.state = "error" THEN [ret |-> end.error, self |-> end.self]
       ELSE [ret |-> Ok(Token(IntegerKind(end.value), start_location)),
             self |-> end.self]

Punctuation(c) ==
    CASE c = "(" -> "OpenParenthesis" [] c = ")" -> "CloseParenthesis"
      [] c = "{" -> "OpenBrace" [] c = "}" -> "CloseBrace"
      [] c = "," -> "Comma" [] c = ":" -> "Colon" [] c = ";" -> "Semicolon"
      [] c = "=" -> "Equals" [] c = "+" -> "Plus" [] c = "*" -> "Asterisk"
      [] c = "/" -> "Slash"

RECURSIVE next_token(_)
\* Lexer::next_token: [ret, self], the Result and the Lexer after the call.
next_token(self) ==
    LET start_location == self.location
        n == next_char(self)
        s == n.self
        c == n.ret
        ok(kind, after) == [ret |-> Ok(Token(kind, start_location)), self |-> after]
    IN IF ~c.some THEN ok(Kind("EOF"), s)
       ELSE IF c.v \in {"(", ")", "{", "}", ",", ":", ";", "=", "+", "*", "/"}
       THEN ok(Kind(Punctuation(c.v)), s)
       ELSE IF c.v = "-"
       THEN IF peek_char(s) = Some(">")
            THEN ok(Kind("RightArrow"), next_char(s).self)
            ELSE ok(Kind("Minus"), s)
       ELSE IF is_ascii_alphabetic(c.v) \/ c.v = "_"
       THEN LET e == NameLoop(s)
            IN ok(KeywordOrName(Slice(self.source, start_location.position,
                                      e.location.position)), e)
       ELSE IF is_ascii_digit(c.v)
       THEN LET b == IntegerBase(s, c.v)
            IN IntegerLoop(b.self, U64(to_digit(c.v, 10).v), b.base, start_location)
       ELSE IF is_whitespace(c.v) THEN next_token(s)
       ELSE [ret |-> Err([tag |-> "UnexpectedChar", c |-> c.v], start_location),
             self |-> s]

peek_token_in_place(self) == next_token(self)

\* Lexer::peek_token: next_token on a clone; the Lexer itself is not touched.
peek_token(self) ==
    LET clone == self
    IN [ret |-> next_token(clone).ret, self |-> self]

----------------------------------------------------------------------------
(* The syntax tree (src/src/ast.rs).                                       *)

\* BinaryOperator::from_token_kind
from_token_kind(kind) ==
    CASE kind.tag = "Plus" -> Some("Add")
      [] kind.tag = "Minus" -> Some("Subtract")
      [] kind.tag = "Asterisk" -> Some("Multiply")
      [] kind.tag = "Slash" -> Some("Divide")
      [] OTHER -> None

\* BinaryOperator::precedence
precedence(operator) ==
    IF operator \in {"Multiply", "Divide"} THEN 2 ELSE 1

Node(kind, loc) == [kind |-> kind, location |-> loc]

----------------------------------------------------------------------------
(* The parser (src/src/parsing.rs).  A parsing function returns            *)
(* [ok, v, lexer] or [ok, error, lexer]: its Result, and the Lexer as the  *)
(* call left it.                                                           *)

POk(v, lx) == [ok |-> TRUE, v |-> v, lexer |-> lx]
PErr(kind, loc, lx) ==
    [ok |-> FALSE, error |-> [kind |-> kind, location |-> loc], lexer |-> lx]

FromLexerResult_at_cursor(result, lx) ==
    IF result.ok THEN POk(result.v, lx)
    ELSE PErr([tag |-> "LexerError", inner |-> result.error.kind], lx.location, lx)

\* From<LexerError> for ParseError, which ? applies to a scanner's result.
FromLexerResult(result, lx) ==
    IF result.ok THEN POk(result.v, lx)
    ELSE PErr([tag |-> "LexerError", inner |-> result.error.kind],
              result.error.location, lx)

\* lexer.peek_token()? and lexer.next_token()?
PeekTokenTry(lx) == FromLexerResult(peek_token(lx).ret, lx)
NextTokenOf(t) == FromLexerResult(t.ret, t.self)
NextTokenTry(lx) == NextTokenOf(next_token(lx))

ExpectMatch_any(t, pattern) == t

\* The arms of expect_token! on the token read (or the scanner's error).
ExpectMatch(t, pattern) ==
    IF ~t.ok THEN t
    ELSE IF t.v.kind.tag = pattern THEN t
    ELSE PErr([tag |-> "UnexpectedToken", token |-> t.v.kind], t.v.location, t.lexer)

\* expect_token!: the next token when its kind matches the pattern.
expect_token(lx, pattern) == ExpectMatch(NextTokenTry(lx), pattern)

RECURSIVE Rec(_, _)
\* In the definitions below, Rec(name, <<arguments>>) is the call of the
\* function of that name (Rec is defined after them); "peek_token" and
\* "next_token" are the calls followed by ?.  A result r that is not ok is
\* returned at once, as ? does.

\* The optional ": type" of a pattern, and the pattern.
PatternType(lx, name_token, loc) ==
    LET pk == Rec("peek_token", <<lx>>)
        colon == Rec("next_token", <<lx>>)
        typ == Rec("parse_expression", <<colon.lexer>>)
    IN IF ~pk.ok THEN pk
       ELSE IF pk.v.kind.tag # "Colon"
       THEN POk(Node([tag |-> "Let", name_token |-> name_token, typ |-> None], loc),
                lx)
       ELSE IF ~colon.ok THEN colon
       ELSE IF ~typ.ok THEN typ
       ELSE POk(Node([tag |-> "Let", name_token |-> name_token,
                      typ |-> Some(typ.v)], loc),
                typ.lexer)

parse_pattern(lx, requires_let) ==
    LET t == Rec("next_token", <<lx>>)
        name_token == Rec("expect_token", <<t.lexer, "Name">>)
    IN IF ~t.ok THEN t
       ELSE IF t.v.kind.tag = "Let"
       THEN IF ~name_token.ok THEN name_token
            ELSE PatternType(name_token.lexer, name_token.v, t.v.location)
       ELSE IF t.v.kind.tag = "Name" /\ ~requires_let
       THEN PatternType(t.lexer, t.v, t.v.location)
       ELSE PErr([tag |-> "ExpectedPattern", token |-> t.v.kind],
                 t.v.location, t.lexer)

\* The while loop of parse_block.
\* What one iteration of a loop comes to: the loop runs again on new values
\* of its variables, or the function leaves it (break, return, `?`).
Again(args) == [again |-> TRUE, args |-> args]

Leave(result) == [again |-> FALSE, result |-> result]

BlockIteration(lx, statements) ==
    LET pk == Rec("peek_token", <<lx>>)
        st == Rec("parse_statement", <<lx>>)
    IN IF ~pk.ok THEN Leave(pk)
       ELSE IF pk.v.kind.tag = "CloseBrace" THEN Leave(POk(statements, lx))
       ELSE IF ~st.ok THEN Leave(st)
       ELSE Again(<<st.lexer, Append(statements, st.v)>>)

BlockStatements(lx, statements) ==
    LET it == Rec("BlockIteration", <<lx, statements>>)
    IN IF it.again THEN Rec("BlockStatements", it.args) ELSE it.result

\* The opening brace of a block: the one given, or the next token.
BlockOpen(lx, open_brace_location) ==
    LET t == Rec("expect_token", <<lx, "OpenBrace">>)
    IN IF open_brace_location.some THEN POk(open_brace_location.v, lx)
       ELSE IF ~t.ok THEN t
       ELSE POk(t.v.location, t.lexer)

BlockNode_open_brace(loc, statements, close_brace) ==
    Node([tag |-> "Block", statements |-> statements, close_brace |-> loc], loc)

BlockNode(loc, statements, close_brace) ==
    Node([tag |-> "Block", statements |-> statements, close_brace |-> close_brace], loc)

parse_block(lx, open_brace_location) ==
    LET open == BlockOpen(lx, open_brace_location)
        statements == Rec("BlockStatements", <<open.lexer, <<>>>>)
        close_brace == Rec("expect_token", <<statements.lexer, "CloseBrace">>)
    IN IF ~open.ok THEN open
       ELSE IF ~statements.ok THEN statements
       ELSE IF ~close_brace.ok THEN close_brace
       ELSE POk(BlockNode(open.v, statements.v, close_brace.v.location),
                close_brace.lexer)

parse_expression(lx) == Rec("parse_binary_expression", <<lx, None>>)

\* A comma after a list element is consumed when there is one, and not
\* asked for when there is none.
CommaUnlessClose_optional(lx) ==
    LET after == Rec("peek_token", <<lx>>)
    IN IF ~after.ok THEN after
       ELSE IF after.v.kind.tag = "Comma"
       THEN Rec("expect_token", <<lx, "Comma">>)
       ELSE after

\* The comma after a list element, unless the closing parenthesis follows.
CommaUnlessClose(lx) ==
    LET after == Rec("peek_token", <<lx>>)
    IN IF ~after.ok THEN after
       ELSE IF after.v.kind.tag # "CloseParenthesis"
       THEN Rec("expect_token", <<lx, "Comma">>)
       ELSE after

\* The while loop of a call's arguments: one iteration, and the loop.
CallArgumentsIteration(lx, arguments) ==
    LET pk == Rec("peek_token", <<lx>>)
        e == Rec("parse_expression", <<lx>>)
        comma == CommaUnlessClose(e.lexer)
    IN IF ~pk.ok THEN Leave(pk)
       ELSE IF pk.v.kind.tag = "CloseParenthesis" THEN Leave(POk(arguments, lx))
       ELSE IF ~e.ok THEN Leave(e)
       ELSE IF ~comma.ok THEN Leave(comma)
       ELSE Again(<<comma.lexer, Append(arguments, e.v)>>)

CallArguments(lx, arguments) ==
    LET it == Rec("CallArgumentsIteration", <<lx, arguments>>)
    IN IF it.again THEN Rec("CallArguments", it.args) ELSE it.result

\* A call of `left`: the arguments in parentheses.
CallOf(lx, left) ==
    LET open == Rec("expect_token", <<lx, "OpenParenthesis">>)
        arguments == Rec("CallArguments", <<open.lexer, <<>>>>)
        close == Rec("expect_token", <<arguments.lexer, "CloseParenthesis">>)
    IN IF ~open.ok THEN open
       ELSE IF ~arguments.ok THEN arguments
       ELSE IF ~close.ok THEN close
       ELSE POk(Node([tag |-> "Call", operand |-> left, arguments |-> arguments.v,
                      close_parenthesis |-> close.v.location],
                     open.v.location),
                close.lexer)

Binds_right_assoc(prec, parent_precedence) ==
    ~(parent_precedence.some /\ prec < parent_precedence.v)

\* The operator is taken in this call: its precedence is above the parent's.
Binds(prec, parent_precedence) ==
    ~(parent_precedence.some /\ prec <= parent_precedence.v)

BinaryOf_primary_right(lx, left, operator, parent_precedence) ==
    LET t == Rec("next_token", <<lx>>)
        right == Rec("parse_primary_expression", <<t.lexer>>)
    IN IF ~t.ok THEN Leave(t)
       ELSE IF ~right.ok THEN Leave(right)
       ELSE Again(<<right.lexer,
                    Node([tag |-> "Binary", left |-> left,
                          operator |-> operator, right |-> right.v],
                         t.v.location),
                    parent_precedence>>)

\* The operator and its right operand; the loop runs again around the Binary
\* node.
BinaryOf(lx, left, operator, parent_precedence) ==
    LET t == Rec("next_token", <<lx>>)
        right == Rec("parse_binary_expression",
                     <<t.lexer, Some(precedence(operator))>>)
    IN IF ~t.ok THEN Leave(t)
       ELSE IF ~right.ok THEN Leave(right)
       ELSE Again(<<right.lexer,
                    Node([tag |-> "Binary", left |-> left,
                          operator |-> operator, right |-> right.v],
                         t.v.location),
                    parent_precedence>>)

\* The loop of parse_binary_expression around `left`: one iteration, and the
\* loop.
BinaryIteration(lx, left, parent_precedence) ==
    LET pk == Rec("peek_token", <<lx>>)
        operator == from_token_kind(pk.v.kind)
        call == CallOf(lx, left)
    IN IF ~pk.ok THEN Leave(pk)
       ELSE IF operator.some
       THEN IF Binds(precedence(operator.v), parent_precedence)
            THEN BinaryOf(lx, left, operator.v, parent_precedence)
            ELSE Leave(POk(left, lx))
       ELSE IF pk.v.kind.tag = "OpenParenthesis"
       THEN IF ~call.ok THEN Leave(call)
            ELSE Again(<<call.lexer, call.v, parent_precedence>>)
       ELSE Leave(POk(left, lx))

BinaryLoop(lx, left, parent_precedence) ==
    LET it == Rec("BinaryIteration", <<lx, left, parent_precedence>>)
    IN IF it.again THEN Rec("BinaryLoop", it.args) ELSE it.result

parse_binary_expression(lx, parent_precedence) ==
    LET left == Rec("parse_primary_expression", <<lx>>)
    IN IF ~left.ok THEN left
       ELSE Rec("BinaryLoop", <<left.lexer, left.v, parent_precedence>>)

parse_primary_expression(lx) ==
    LET t == Rec("next_token", <<lx>>)
        expression == Rec("parse_expression", <<t.lexer>>)
        close == Rec("expect_token", <<expression.lexer, "CloseParenthesis">>)
    IN IF ~t.ok THEN t
       ELSE IF t.v.kind.tag = "Integer"
       THEN POk(Node([tag |-> "Integer", value |-> t.v.kind.value], t.v.location),
                t.lexer)
       ELSE IF t.v.kind.tag = "Name"
       THEN POk(Node([tag |-> "Name", name |-> t.v.kind.name], t.v.location),
                t.lexer)
       ELSE IF t.v.kind.tag = "OpenParenthesis"
       THEN IF ~expression.ok THEN expression
            ELSE IF ~close.ok THEN close
            ELSE POk(expression.v, close.lexer)
       ELSE IF t.v.kind.tag = "OpenBrace"
       THEN Rec("parse_block", <<t.lexer, Some(t.v.location)>>)
       ELSE PErr([tag |-> "ExpectedExpression", token |-> t.v.kind],
                 t.v.location, t.lexer)

\* The while loop of a function's parameters: one iteration, and the loop.
FnArgumentsIteration(lx, arguments) ==
    LET pk == Rec("peek_token", <<lx>>)
        p == Rec("parse_pattern", <<lx, FALSE>>)
        comma == CommaUnlessClose(p.lexer)
    IN IF ~pk.ok THEN Leave(pk)
       ELSE IF pk.v.kind.tag = "CloseParenthesis" THEN Leave(POk(arguments, lx))
       ELSE IF ~p.ok THEN Leave(p)
       ELSE IF ~comma.ok THEN Leave(comma)
       ELSE Again(<<comma.lexer, Append(arguments, p.v)>>)

FnArguments(lx, arguments) ==
    LET it == Rec("FnArgumentsIteration", <<lx, arguments>>)
    IN IF it.again THEN Rec("FnArguments", it.args) ELSE it.result

\* The optional "-> type" of a function.
FnReturnType(lx) ==
    LET pk == Rec("peek_token", <<lx>>)
        arrow == Rec("expect_token", <<lx, "RightArrow">>)
        typ == Rec("parse_expression", <<arrow.lexer>>)
    IN IF ~pk.ok THEN pk
       ELSE IF pk.v.kind.tag # "RightArrow" THEN POk(None, lx)
       ELSE IF ~arrow.ok THEN arrow
       ELSE IF ~typ.ok THEN typ
       ELSE POk(Some(typ.v), typ.lexer)

parse_fn(lx, fn_location) ==
    LET name == Rec("expect_token", <<lx, "Name">>)
        open == Rec("expect_token", <<name.lexer, "OpenParenthesis">>)
        arguments == Rec("FnArguments", <<open.lexer, <<>>>>)
        close == Rec("expect_token", <<arguments.lexer, "CloseParenthesis">>)
        return_type == FnReturnType(close.lexer)
        body == Rec("parse_block", <<return_type.lexer, None>>)
    IN IF ~name.ok THEN name
       ELSE IF ~open.ok THEN open
       ELSE IF ~arguments.ok THEN arguments
       ELSE IF ~close.ok THEN close
       ELSE IF ~return_type.ok THEN return_type
       ELSE IF ~body.ok THEN body
       ELSE POk(Node([tag |-> "Function", name |-> name.v,
                      arguments |-> arguments.v,
                      return_type |-> return_type.v, body |-> body.v],
                     fn_location),
                body.lexer)

\* The expression and the semicolon that end a statement.
ExpressionSemicolon(lx) ==
    LET expression == Rec("parse_expression", <<lx>>)
        semicolon == Rec("expect_token", <<expression.lexer, "Semicolon">>)
    IN IF ~expression.ok THEN expression
       ELSE IF ~semicolon.ok THEN semicolon
       ELSE POk(expression.v, semicolon.lexer)

\* The Let arm of parse_statement.
LetStatement(lx, start_location) ==
    LET pattern == Rec("parse_pattern", <<lx, TRUE>>)
        equals == Rec("expect_token", <<pattern.lexer, "Equals">>)
        value == ExpressionSemicolon(equals.lexer)
    IN IF ~pattern.ok THEN pattern
       ELSE IF ~equals.ok THEN equals
       ELSE IF ~value.ok THEN value
       ELSE POk(Node([tag |-> "Let", pattern |-> pattern.v,
                      equals |-> equals.v.location, value |-> value.v],
                     start_location),
                value.lexer)

\* The arms of parse_statement on the kind of the token peeked.
StatementOf(lx, tag, start_location) ==
    LET fn == Rec("expect_token", <<lx, "Fn">>)
        return == Rec("expect_token", <<lx, "Return">>)
        returned == ExpressionSemicolon(return.lexer)
        expression == ExpressionSemicolon(lx)
    IN IF tag = "Fn"
       THEN IF ~fn.ok THEN fn
            ELSE Rec("parse_fn", <<fn.lexer, fn.v.location>>)
       ELSE IF tag = "Let" THEN LetStatement(lx, start_location)
       ELSE IF tag = "Return"
       THEN IF ~return.ok THEN return
            ELSE IF ~returned.ok THEN returned
            ELSE POk(Node([tag |-> "Return", expression |-> returned.v],
                          start_location),
                     returned.lexer)
       ELSE IF ~expression.ok THEN expression
       ELSE POk(Node([tag |-> "Expression", expression |-> expression.v],
                     start_location),
                expression.lexer)

parse_statement(lx) ==
    LET pk == Rec("peek_token", <<lx>>)
    IN IF ~pk.ok THEN pk
       ELSE StatementOf(lx, pk.v.kind.tag, location(lx))

parse_global(lx) ==
    LET t == Rec("next_token", <<lx>>)
    IN IF ~t.ok THEN t
       ELSE IF t.v.kind.tag = "Fn" THEN Rec("parse_fn", <<t.lexer, t.v.location>>)
       ELSE PErr([tag |-> "ExpectedGlobalItem", token |-> t.v.kind],
                 t.v.location, t.lexer)

ParseIteration_peeking(lx, statements) ==
    LET pk == Rec("peek_token", <<lx>>)
    IN IF ~pk.ok THEN Leave(pk)
       ELSE IF pk.v.kind.tag = "EOF" THEN Leave(POk(statements, lx))
       ELSE Again(<<lx, statements>>)

\* The while loop of parse: one iteration, and the loop.
ParseIteration(lx, statements) ==
    LET pk == Rec("peek_token", <<lx>>)
        item == Rec("parse_global", <<lx>>)
    IN IF ~pk.ok THEN Leave(pk)
       ELSE IF pk.v.kind.tag = "EOF" THEN Leave(POk(statements, lx))
       ELSE IF ~item.ok THEN Leave(item)
       ELSE Again(<<item.lexer, Append(statements, item.v)>>)

ParseItems(lx, statements) ==
    LET it == Rec("ParseIteration", <<lx, statements>>)
    IN IF it.again THEN Rec("ParseItems", it.args) ELSE it.result

\* The call of a function by its name.
Rec(name, args) ==
    CASE name = "peek_token" -> PeekTokenTry(args[1])
      [] name = "next_token" -> NextTokenTry(args[1])
      [] name = "expect_token" -> expect_token(args[1], args[2])
      [] name = "parse_statement" -> parse_statement(args[1])
      [] name = "parse_fn" -> parse_fn(args[1], args[2])
      [] name = "FnArguments" -> FnArguments(args[1], args[2])
      [] name = "parse_primary_expression" -> parse_primary_expression(args[1])
      [] name = "parse_binary_expression" -> parse_binary_expression(args[1], args[2])
      [] name = "BinaryLoop" -> BinaryLoop(args[1], args[2], args[3])
      [] name = "CallArguments" -> CallArguments(args[1], args[2])
      [] name = "parse_expression" -> parse_expression(args[1])
      [] name = "parse_block" -> parse_block(args[1], args[2])
      [] name = "BlockStatements" -> BlockStatements(args[1], args[2])
      [] name = "parse_pattern" -> parse_pattern(args[1], args[2])
      [] name = "parse_global" -> parse_global(args[1])
      [] name = "ParseItems" -> ParseItems(args[1], args[2])
      [] name = "ParseIteration" -> ParseIteration(args[1], args[2])
      [] name = "FnArgumentsIteration" -> FnArgumentsIteration(args[1], args[2])
      [] name = "CallArgumentsIteration" -> CallArgumentsIteration(args[1], args[2])
      [] name = "BlockIteration" -> BlockIteration(args[1], args[2])
      [] name = "BinaryIteration" -> BinaryIteration(args[1], args[2], args[3])

parse(filepath, source) == Rec("ParseItems", <<Lexer_new(filepath, source), <<>>>>)

----------------------------------------------------------------------------
(* Pretty printing (src/src/pretty_printing.rs, and its caller in          *)
(* src/src/bin/main.rs).  A function returns the characters it writes to   *)
(* the writer.                                                             *)

\* {value} of a u64: its decimal digits.
Display_u64(value) ==
    LET ds == StripZeros(Repr(value, 10, 20).digits)
    IN IF ds = <<>> THEN <<"0">>
       ELSE [k \in DOMAIN ds |-> DecimalDigits[ds[k] + 1]]

\* Display of a TokenKind.
Display_TokenKind(kind) ==
    CASE kind.tag = "EOF" -> <<"{","e","n","d"," ","o","f"," ","f","i","l","e","}">>
      [] kind.tag = "Name" -> kind.name
      [] kind.tag = "Integer" -> Display_u64(kind.value)
      [] kind.tag = "Let" -> <<"l","e","t">>
      [] kind.tag = "Fn" -> <<"f","n">>
      [] kind.tag = "Return" -> <<"r","e","t","u","r","n">>
      [] kind.tag = "OpenParenthesis" -> <<"(">>
      [] kind.tag = "CloseParenthesis" -> <<")">>
      [] kind.tag = "OpenBrace" -> <<"{">>
      [] kind.tag = "CloseBrace" -> <<"}">>
      [] kind.tag = "Comma" -> <<",">>
      [] kind.tag = "Colon" -> <<":">>
      [] kind.tag = "Semicolon" -> <<";">>
      [] kind.tag = "Equals" -> <<"=">>
      [] kind.tag = "Plus" -> <<"+">>
      [] kind.tag = "Minus" -> <<"-">>
      [] kind.tag = "Asterisk" -> <<"*">>
      [] kind.tag = "Slash" -> <<"/">>
      [] kind.tag = "RightArrow" -> <<"-",">">>

\* Display of a BinaryOperator.
Display_BinaryOperator(operator) ==
    CASE operator = "Add" -> <<"+">>
      [] operator = "Subtract" -> <<"-">>
      [] operator = "Multiply" -> <<"*">>
      [] operator = "Divide" -> <<"/">>

RECURSIVE print_indent(_)
print_indent(indent) ==
    IF indent = 0 THEN <<>> ELSE <<" "," "," "," ">> \o print_indent(indent - 1)

RECURSIVE Written(_, _)

pretty_print_ast_pattern(pattern, indent) ==
    pattern.kind.name_token.kind.name
    \o IF pattern.kind.typ.some
       THEN <<":"," ">>
            \o Written("pretty_print_ast_expression", <<pattern.kind.typ.v, indent>>)
       ELSE <<>>

\* The loops over arguments: ", " before each but the first, from the i-th on.
ArgumentsWritten(name, arguments, indent, i) ==
    IF i > Len(arguments) THEN <<>>
    ELSE (IF i > 1 THEN <<","," ">> ELSE <<>>)
         \o Written(name, <<arguments[i], indent>>)
         \o Written("ArgumentsWritten", <<name, arguments, indent, i + 1>>)

\* The loops over statements, from the i-th on.
StatementsWritten(statements, indent, i) ==
    IF i > Len(statements) THEN <<>>
    ELSE Written("pretty_print_ast", <<statements[i], indent>>)
         \o Written("StatementsWritten", <<statements, indent, i + 1>>)

BinaryWritten_bare(left, operator, right) ==
    left \o <<" ">> \o Display_BinaryOperator(operator) \o <<" ">> \o right

\* A Binary: the operands written, in parentheses around the operator.
BinaryWritten(left, operator, right) ==
    <<"(">> \o left \o <<" ">> \o Display_BinaryOperator(operator) \o <<" ">>
    \o right \o <<")">>

pretty_print_ast_expression(expression, indent) ==
    CASE expression.kind.tag = "Name" -> expression.kind.name
      [] expression.kind.tag = "Integer" -> Display_u64(expression.kind.value)
      [] expression.kind.tag = "Binary" ->
             BinaryWritten(Written("pretty_print_ast_expression",
                                   <<expression.kind.left, indent>>),
                           expression.kind.operator,
                           Written("pretty_print_ast_expression",
                                   <<expression.kind.right, indent>>))
      [] expression.kind.tag = "Block" ->
             <<"{","\n">>
             \o Written("StatementsWritten", <<expression.kind.statements, indent + 1, 1>>)
             \o print_indent(indent) \o <<"}">>
      [] expression.kind.tag = "Call" ->
             Written("pretty_print_ast_expression", <<expression.kind.operand, indent>>)
             \o <<"(">>
             \o Written("ArgumentsWritten",
                        <<"pretty_print_ast_expression", expression.kind.arguments,
                          indent, 1>>)
             \o <<")">>

pretty_print_ast(ast, indent) ==
    print_indent(indent)
    \o CASE ast.kind.tag = "Expression" ->
               Written("pretty_print_ast_expression", <<ast.kind.expression, indent>>)
               \o <<";","\n">>
         [] ast.kind.tag = "Let" ->
               <<"l","e","t"," ">>
               \o Written("pretty_print_ast_pattern", <<ast.kind.pattern, indent>>)
               \o <<" ","="," ">>
               \o Written("pretty_print_ast_expression", <<ast.kind.value, indent>>)
               \o <<";","\n">>
         [] ast.kind.tag = "Function" ->
               <<"f","n"," ">> \o Display_TokenKind(ast.kind.name.kind) \o <<"(">>
               \o Written("ArgumentsWritten",
                          <<"pretty_print_ast_pattern", ast.kind.arguments, indent, 1>>)
               \o <<")">>
               \o (IF ast.kind.return_type.some
                   THEN <<" ","-",">"," ">>
                        \o Written("pretty_print_ast_expression",
                                   <<ast.kind.return_type.v, indent>>)
                   ELSE <<>>)
               \o <<" ">>
               \o Written("pretty_print_ast_expression", <<ast.kind.body, indent>>)
               \o <<"\n">>
         [] ast.kind.tag = "Return" ->
               <<"r","e","t","u","r","n"," ">>
               \o Written("pretty_print_ast_expression", <<ast.kind.expression, indent>>)
               \o <<";","\n">>

\* The call of a printing function by its name.
Written(name, args) ==
    CASE name = "pretty_print_ast" -> pretty_print_ast(args[1], args[2])
      [] name = "pretty_print_ast_expression" ->
             pretty_print_ast_expression(args[1], args[2])
      [] name = "pretty_print_ast_pattern" -> pretty_print_ast_pattern(args[1], args[2])
      [] name = "ArgumentsWritten" ->
             ArgumentsWritten(args[1], args[2], args[3], args[4])
      [] name = "StatementsWritten" -> StatementsWritten(args[1], args[2], args[3])

----------------------------------------------------------------------------
(* Sources.                                                                *)

RECURSIVE Concat(_)
Concat(ss) == IF ss = <<>> THEN <<>> ELSE Head(ss) \o Concat(Tail(ss))

SeqsUpTo(S, n) == UNION {[1..k -> S] : k \in 0..n}

\* The lexemes scanner sources are made of.
Pieces ==
    { <<"l","e","t">>, <<"x","1">>, <<"1","2">>, <<"-">>, <<">">>,
      <<"\n">>, <<"U+00E9">>, <<"U+00A0">> }

\* The keywords, and one lexeme of every other kind.
ExampleSources ==
    { <<"f","n">>, <<"r","e","t","u","r","n">>, <<"r","e","t","u","r","n","s">>,
      <<"f","n"," ","f","(",")","{","}">>, <<"a",",","b",":","c",";","=","+","*","/">>,
      <<"-",">","-","-",">">>, <<"\t","@","\r">>, <<"_","(","_","a","1",")">>,
      <<"U+00A0","\n","x"," ","U+00E9">> }

PieceSources == {Concat(ps) : ps \in SeqsUpTo(Pieces, MaxPieces)}

Prefixes == { <<>>, <<"0","x">>, <<"0","d">>, <<"0","o">>, <<"0","b">> }
DigitChars == {"0", "1", "9", "F", "z"}

\* 2^64 - 1 and its neighbours, in each base.
BoundaryLiterals ==
    LET rep(c, n) == [i \in 1..n |-> c]
        dec == <<"1","8","4","4","6","7","4","4","0","7","3","7","0","9","5","5","1","6","1">>
    IN { dec \o <<"5">>, dec \o <<"6">>, dec \o <<"5","0">>, <<"0">> \o dec \o <<"5">>,
         <<"0","d">> \o dec \o <<"5">>, <<"0","d">> \o dec \o <<"6">>,
         <<"0","d","2">> \o rep("0", 19),
         <<"0","x">> \o rep("F", 16), <<"0","x">> \o rep("f", 16),
         <<"0","x","1">> \o rep("0", 16), <<"0","x","0">> \o rep("F", 16),
         <<"0","x">> \o rep("F", 16) \o <<"z">>,
         <<"0","o","1">> \o rep("7", 21), <<"0","o","2">> \o rep("0", 21),
         <<"0","o","1">> \o rep("7", 21) \o <<"0">>,
         <<"0","b">> \o rep("1", 64), <<"0","b","1">> \o rep("0", 64),
         <<"0","b">> \o rep("1", 64) \o <<"2">>,
         dec \o <<"6","a">>, dec \o <<"5","a">> }

\* Literals: a prefix and up to MaxDigits characters, bare and inside other text.
IntegerSources ==
    LET lits == {p \o d : p \in Prefixes, d \in SeqsUpTo(DigitChars, MaxDigits)}
                   \ {<<>>}
        all == lits \cup BoundaryLiterals
    IN all \cup {<<"\n", " ">> \o l \o <<"+">> : l \in all}

Sources == PieceSources \cup ExampleSources \cup IntegerSources

----------------------------------------------------------------------------
(* The scanner as a state machine: any interleaving of its four            *)
(* operations on a Lexer made by Lexer::new.                               *)

NotCalled == [called |-> FALSE]

Init ==
    /\ \E source \in Sources : lexer = Lexer_new(FilePath, source)
    /\ op = "new"
    /\ ret = None
    /\ prev = lexer
    /\ peeked = None
    /\ peeks = 0
    /\ calls = 0
    /\ expected = None
    /\ parsed = NotCalled
    /\ loop = NotCalled
    /\ printed = NotCalled

\* Whether the call made last consumed characters (or nothing was called yet).
Consuming == op \in {"new", "next_char", "next_token"}

NextChar ==
    /\ lexer' = next_char(lexer).self
    /\ ret' = next_char(lexer).ret
    /\ op' = "next_char"
    /\ prev' = lexer
    /\ peeked' = None
    /\ peeks' = 0
    /\ UNCHANGED <<calls, expected, parsed, loop, printed>>

PeekChar ==
    /\ ret' = peek_char(lexer)
    /\ op' = "peek_char"
    /\ prev' = lexer
    /\ peeked' = IF Consuming THEN None ELSE peeked
    /\ peeks' = IF Consuming THEN 0 ELSE peeks
    /\ UNCHANGED <<lexer, calls, expected, parsed, loop, printed>>

\* peeked and peeks keep, after next_token, the peeks that came before it.
NextToken ==
    /\ lexer' = next_token(lexer).self
    /\ ret' = next_token(lexer).ret
    /\ op' = "next_token"
    /\ prev' = lexer
    /\ peeked' = IF Consuming THEN None ELSE peeked
    /\ peeks' = IF Consuming THEN 0 ELSE peeks
    /\ UNCHANGED <<calls, expected, parsed, loop, printed>>

PeekToken ==
    /\ Consuming \/ peeks < MaxPeeks
    /\ lexer' = peek_token(lexer).self
    /\ ret' = peek_token(lexer).ret
    /\ op' = "peek_token"
    /\ prev' = lexer
    /\ peeked' = Some(peek_token(lexer).ret)
    /\ peeks' = IF Consuming THEN 1 ELSE peeks + 1
    /\ UNCHANGED <<calls, expected, parsed, loop, printed>>

Next == NextChar \/ PeekChar \/ NextToken \/ PeekToken

Spec == Init /\ [][Next]_vars

\* Tokens separated by single spaces.
RECURSIVE JoinTokens(_)
JoinTokens(ts) ==
    IF ts = <<>> THEN <<>>
    ELSE IF Len(ts) = 1 THEN ts[1]
    ELSE ts[1] \o <<" ">> \o JoinTokens(Tail(ts))

ExprTokens ==
    { <<"1">>, <<"x">>, <<"+">>, <<"*">>, <<"(">>, <<")">>, <<",">> }

\* Every sequence of at most MaxExprTokens expression tokens.
ExprTokenSources == {JoinTokens(ts) : ts \in SeqsUpTo(ExprTokens, MaxExprTokens)}

Operators == { <<"+">>, <<"-">>, <<"*">>, <<"/">> }
Primaries == { <<"1">>, <<"f","(","x",","," ","2",")">> }

\* Primaries separated by at most MaxOps operators.
ChainSources ==
    UNION {{JoinTokens([i \in 1..(2 * k + 1) |->
                          IF i % 2 = 1 THEN ps[(i + 1) \div 2] ELSE os[i \div 2]]) :
              ps \in [1..(k + 1) -> Primaries], os \in [1..k -> Operators]} :
           k \in 0..MaxOps}

ExprExamples ==
    { <<"1"," ","+"," ","2"," ","*"," ","3">>,
      <<"1"," ","-"," ","2"," ","-"," ","3">>,
      <<"(","1"," ","+"," ","2",")"," ","*"," ","3">>,
      <<"f","(","x",")"," ","+"," ","1">>,
      <<"1"," ","+"," ","f","(","x",")">>,
      <<"1"," ","*"," ","2"," ","+"," ","3"," ","/"," ","4"," ","-"," ","5">>,
      <<"a"," ","/"," ","b"," ","*"," ","c","(","d",")","(","e",","," ","f",",",")"," ","-"," ","g">>,
      <<"f","(","a",","," ","b",",",")">>, <<"f","(","a",","," ","b",")">>,
      <<"f","(","a"," ","b",")">>, <<"f","(",","," ","a",")">>,
      <<"{"," ","l","e","t"," ","x"," ","="," ","1",";"," ","r","e","t","u","r","n"," ","x",";"," ","}">>,
      <<"{"," ","{"," ","1",";"," ","}"," ","x",";"," ","}">>,
      <<"1"," ","+"," ","0","x">>,
      <<"2"," ","*"," ","(","3"," ","+"," ","4",")"," ","*"," ","5">>,
      <<"1"," ","+","\n"," "," ","2">>,
      <<"x","(","1"," ","+"," ","2",")","(","3",")"," ","*"," ","y">> }

ProgTokens ==
    { <<"f","n">>, <<"f">>, <<"(">>, <<")">>, <<"{">>, <<"}">>, <<"l","e","t">>,
      <<"1">>, <<",">>, <<";">>, <<"=">>, <<"@">> }

\* Every sequence of at most MaxProgTokens tokens, at the top level and in a
\* function's body.
ProgTokenSources ==
    LET seqs == {JoinTokens(ts) : ts \in SeqsUpTo(ProgTokens, MaxProgTokens)}
    IN seqs \cup {<<"f","n"," ","f","(",")","{">> \o s : s \in seqs}

ProgExamples ==
    { <<"f","n"," ","(">>,
      <<"f","n"," ","f","(",")"," ","{"," ","l","e","t"," ","x"," ","="," ","1",";"," ","r","e","t","u","r","n"," ","x",";"," ","}">>,
      <<"f","n"," ","f","(","a",","," ","b",",",")"," ","{"," ","}">>,
      <<"f","n"," ","f","(","a",","," ","b",")"," ","{"," ","}">>,
      <<"f","n"," ","f","(","a"," ","b",")"," ","{"," ","}">>,
      <<"f","n"," ","f","(",","," ","a",")"," ","{"," ","}">>,
      <<"f","n"," ","f","(","l","e","t"," ","a",":"," ","i","n","t",")"," ","-",">"," ","i","n","t"," ","{"," ","a",";"," ","}">>,
      <<"f","n"," ","f","(",")"," ","{"," ","}"," ","f","n"," ","g","(",")"," ","{"," ","0","9"," ","}">>,
      <<"f","n"," ","f","(",")"," ","{"," ","}","\n","f","n"," ","g","(","x",")"," ","{"," ","r","e","t","u","r","n"," ","x"," ","}">>,
      <<"f","n"," ","f","(",")"," ","{"," ","f","n"," ","g","(",")"," ","{"," ","}"," ","}">>,
      <<"f","n"," ","f","(">>, <<"f","n"," ","f","(",")"," ","{">>,
      <<"f","n"," ","f","(","l","e","t"," ","a",":"," ","i","n","t",","," ","b",")"," ","-",">"," ","i","n","t"," ","{"," ","l","e","t"," ","x",":"," ","i","n","t"," ","="," ","0","x","1","F"," ","+"," ","a"," ","*"," ","(","b"," ","-"," ","2",")"," ","/"," ","g","(","a",","," ","b",")","(","1",")",";"," ","{"," ","x",";"," ","}",";"," ","f","n"," ","h","(",")"," ","{"," ","}"," ","r","e","t","u","r","n"," ","{","}",";"," ","}">>,
      <<"f","n"," ","f","(",")"," ","{"," ","(","1"," ","+"," ","2",")"," ","*"," ","3"," ","-"," ","4",";"," ","}"," ","f","n"," ","g","(","x",":"," ","a","(","1",")",")"," ","-",">"," ","{","}"," ","{"," ","r","e","t","u","r","n"," ","0","b","1","0","1"," ","-"," ","(","x"," ","-"," ","h","(","0",","," ","x",")",")",";"," ","}">>,
      <<"f","n"," ","f","(",")"," ","{"," ","x"," ","="," ","1",";"," ","}">>,
      <<"f","n"," ","f","(",")"," ","{","l","e","t"," ","x","=","1",";","}">>,
      <<"\n","f","n"," ","f","o","o","(","p","a","r","a","m",")"," ","-",">"," ","i","n","t"," ","{","\n"," "," "," "," ","l","e","t"," ","x"," ","="," ","1"," ","+"," ","2"," ","*"," ","3",";","\n"," "," "," "," ","l","e","t"," ","y"," ","="," ","x"," ","/"," ","2",";","\n"," "," "," "," ","f","n"," ","d","o","u","b","l","e","(","x",")"," ","{","\n"," "," "," "," "," "," "," "," ","r","e","t","u","r","n"," ","x"," ","*"," ","2",";","\n"," "," "," "," ","}","\n"," "," "," "," ","l","e","t"," ","z"," ","="," ","d","o","u","b","l","e","(","y",")",";","\n"," "," "," "," ","r","e","t","u","r","n"," ","1","0"," ","/"," ","p","a","r","a","m"," ","-"," ","(","z"," ","-"," ","5",")",";","\n","}","\n">> }

\* A program, cut after every character, and with each character replaced
\* by one the scanner rejects.
Program ==
    <<"f","n"," ","f","(","a",","," ","b",":"," ","i","n","t",")"," ","-",">"," ","i","n","t"," ","{"," ","l","e","t"," ","x"," ","="," ","g","(","1",","," ","2",")"," ","+"," ","3",";"," ","r","e","t","u","r","n"," ","x",";"," ","}">>

ProgramCuts ==
    {SubSeq(Program, 1, n) : n \in 0..Len(Program)}
    \cup {[Program EXCEPT ![n] = "@"] : n \in 1..Len(Program)}

\* Blocks: nested, empty, with every kind of statement, unclosed.
BlockExamples ==
    { <<"{"," ","{"," ","1",";"," ","}",";"," ","f","n"," ","g","(",")"," ","{"," ","r","e","t","u","r","n"," ","x",";"," ","}"," ","l","e","t"," ","y"," ","="," ","(","2",")",";"," ","r","e","t","u","r","n"," ","{","}",";"," ","}">>,
      <<"{","}">>, <<"{","}"," ","}">>, <<"{"," ","{"," ","}"," ","}">>,
      <<"{"," ","{"," ","}",";"," ","}"," ","1">>,
      <<"{"," ","f","(","{"," ","1",";"," ","}",")",";"," ","}">>,
      <<"{"," ","{"," ","1",";"," ","}">>, <<"{"," ","1"," ","}">> }

\* The expressions, each as the one statement of a function's body.
\* What a generated list is made of: elements and commas.
ListItems == {"element", ","}

\* Item i as text: an element is a name, the i-th letter, which is an
\* expression and a pattern.
Lexeme(items, i) == IF items[i] = "," THEN <<",">> ELSE <<LowerCase[i]>>

ListSeqs == SeqsUpTo(ListItems, MaxListItems)

RECURSIVE ListText(_)
\* The items as text: a comma follows at once, an element after a space.
ListText(items) ==
    IF items = <<>> THEN <<>>
    ELSE LET n == Len(items)
         IN ListText(SubSeq(items, 1, n - 1))
            \o (IF n = 1 \/ items[n] = "," THEN <<>> ELSE <<" ">>) \o Lexeme(items, n)

\* The items as the arguments of a call, and as the parameters of a function.
CallText(items) == <<"f","(">> \o ListText(items) \o <<")">>
FnText(items) == <<"f","n"," ">> \o CallText(items) \o <<" ","{","}">>

\* Lists of longer elements.
ListExamples ==
    { <<"f","(","a"," ","+"," ","1",","," ","g","(","b",")",",",")">>,
      <<"f","(","a"," ","+"," ","1",","," ","g","(","b",")",")">>,
      <<"f","(","a"," ","+"," ","1"," ","g","(","b",")",")">>,
      <<"f","n"," ","f","(","a",":"," ","i",","," ","l","e","t"," ","b",",",")"," ","{","}">>,
      <<"f","n"," ","f","(","a",":"," ","i",","," ","l","e","t"," ","b",")"," ","{","}">>,
      <<"f","n"," ","f","(","a",":"," ","i"," ","l","e","t"," ","b",")"," ","{","}">> }

ListSources ==
    {CallText(items) : items \in ListSeqs} \cup {FnText(items) : items \in ListSeqs}
    \cup ListExamples

InFunction(sources) ==
    {<<"f","n"," ","f","(",")"," ","{"," ">> \o e \o <<";"," ","}">> : e \in sources}

ParseSources ==
    BlockExamples \cup InFunction(ExprExamples \cup BlockExamples) \cup
    ExprTokenSources \cup ChainSources \cup ExprExamples
    \cup ProgTokenSources \cup ProgExamples \cup ProgramCuts \cup ListSources

----------------------------------------------------------------------------
(* The parser as a state machine: parse on the whole source, or the        *)
(* parsing functions on a Lexer, one call after another.                   *)

InitParse ==
    /\ \E source \in ParseSources : lexer = Lexer_new(FilePath, source)
    /\ op = "new"
    /\ ret = None
    /\ prev = lexer
    /\ peeked = None
    /\ peeks = 0
    /\ calls = 0
    /\ expected = None
    /\ parsed = NotCalled
    /\ loop = NotCalled
    /\ printed = NotCalled

Parse ==
    /\ calls = 0 /\ ~parsed.called
    /\ parsed' = [called |-> TRUE, result |-> parse(FilePath, lexer.source.text)]
    /\ UNCHANGED <<lexer, op, ret, prev, peeked, peeks, calls, expected, loop, printed>>

\* A parsing function called on the Lexer has returned r.
Returns(name, r) ==
    /\ lexer' = r.lexer
    /\ ret' = r
    /\ op' = name
    /\ prev' = lexer
    /\ calls' = calls + 1
    /\ UNCHANGED <<peeked, peeks, parsed, loop, printed>>

\* The kinds expect_token! is called for in parsing.rs.
Patterns ==
    {"Name", "Fn", "Return", "OpenParenthesis", "CloseParenthesis", "OpenBrace",
     "CloseBrace", "Equals", "Semicolon", "Comma", "RightArrow"}

ExpectToken ==
    /\ calls < MaxCalls /\ ~parsed.called
    /\ \E pattern \in Patterns :
          /\ expected' = Some(pattern)
          /\ Returns("expect_token", Rec("expect_token", <<lexer, pattern>>))

ParseExpression ==
    /\ calls < MaxCalls /\ ~parsed.called
    /\ expected' = None
    /\ Returns("parse_expression", Rec("parse_expression", <<lexer>>))

ParseStatement ==
    /\ calls < MaxCalls /\ ~parsed.called
    /\ expected' = None
    /\ Returns("parse_statement", Rec("parse_statement", <<lexer>>))

ParseBlock ==
    /\ calls < MaxCalls /\ ~parsed.called
    /\ expected' = None
    /\ Returns("parse_block", Rec("parse_block", <<lexer, None>>))

\* main writes the nodes that parse returned, one after the other.
PrettyPrint ==
    /\ parsed.called /\ ~printed.called
    /\ parsed.result.ok
    /\ printed' = [called |-> TRUE,
                   text |-> Written("StatementsWritten", <<parsed.result.v, 0, 1>>)]
    /\ UNCHANGED <<lexer, op, ret, prev, peeked, peeks, calls, expected, parsed, loop>>

NextParse ==
    Parse \/ PrettyPrint \/ ExpectToken \/ ParseExpression \/ ParseStatement
    \/ ParseBlock

SpecParse == InitParse /\ [][NextParse]_vars

----------------------------------------------------------------------------
(* What the claims speak of, computed from the source text alone.          *)

\* The UTF-8 length of the first n characters of text.
BytesOf(text, n) ==
    Cardinality({kb \in (1..n) \X (1..4) : kb[2] <= len_utf8(text[kb[1]])})

\* The location of the i-th character of text: the bytes before it, one more
\* than the newlines before it, one more than the characters since the last one.
LocOf(text, i) ==
    LET newlines == {k \in 1..(i - 1) : text[k] = "\n"}
        last == IF newlines = {} THEN 0
                ELSE CHOOSE k \in newlines : \A j \in newlines : j <= k
    IN Location(FilePath, BytesOf(text, i - 1), 1 + Cardinality(newlines), i - last)

WhiteSpace == {" ", "\n", "\t", "\r", "U+00A0"}
AlphaNumeric == Range(LowerCase) \cup Range(UpperCase) \cup Range(DecimalDigits)

\* The first character at or after index i that is not white space
\* (Len(text) + 1 when there is none).
TokenStart(text, i) ==
    LET rest == {k \in i..Len(text) : text[k] \notin WhiteSpace}
    IN IF rest = {} THEN Len(text) + 1 ELSE CHOOSE k \in rest : \A j \in rest : k <= j

\* The last character of the run of alphanumeric characters that starts at i.
RunEnd(text, i) ==
    LET stops == {k \in i..Len(text) : text[k] \notin AlphaNumeric}
    IN IF stops = {} THEN Len(text) ELSE (CHOOSE k \in stops : \A j \in stops : k <= j) - 1

\* The value of a digit character (36: none).
DigitValue(c) ==
    LET lower == {k \in DOMAIN LowerCase : LowerCase[k] = c}
        upper == {k \in DOMAIN UpperCase : UpperCase[k] = c}
        digit == {k \in DOMAIN DecimalDigits : DecimalDigits[k] = c}
    IN IF digit # {} THEN (CHOOSE k \in digit : TRUE) - 1
       ELSE IF lower # {} THEN (CHOOSE k \in lower : TRUE) + 9
       ELSE IF upper # {} THEN (CHOOSE k \in upper : TRUE) + 9
       ELSE 36

\* The integer literal that starts at index i of text (text[i] is a digit):
\* its base, the values of its digits after the prefix, where they start.
Literal(text, i) ==
    LET end == RunEnd(text, i)
        prefixed == text[i] = "0" /\ i < end /\ text[i + 1] \in {"x", "d", "o", "b"}
        first == IF prefixed THEN i + 2 ELSE i
    IN [start |-> i, end |-> end, first |-> first,
        base |-> IF ~prefixed THEN 10
                 ELSE CASE text[i + 1] = "x" -> 16 [] text[i + 1] = "d" -> 10
                        [] text[i + 1] = "o" -> 8 [] text[i + 1] = "b" -> 2,
        digits |-> [k \in 1..(end - first + 1) |-> DigitValue(text[first + k - 1])]]

\* The literal the call of next_token made last was looking at, if any.
AtLiteral ==
    /\ op = "next_token"
    /\ TokenStart(prev.source.text, prev.chars) <= Len(prev.source.text)
    /\ prev.source.text[TokenStart(prev.source.text, prev.chars)] \in Range(DecimalDigits)

TheLiteral == Literal(prev.source.text, TokenStart(prev.source.text, prev.chars))

AllValid(lit) == \A k \in DOMAIN lit.digits : lit.digits[k] < lit.base

\* v is the number the digits ds write in base b.
ValueIs(v, ds, b) ==
    LET r == Repr(v, b, Len(ds))
    IN r.rest = U64(0) /\ r.digits = ds

\* 2^64 - 1 written in base b.
MaxRepr(b) ==
    CASE b = 2 -> [k \in 1..64 |-> 1]
      [] b = 8 -> <<1>> \o [k \in 1..21 |-> 7]
      [] b = 16 -> [k \in 1..16 |-> 15]
      [] b = 10 -> <<1,8,4,4,6,7,4,4,0,7,3,7,0,9,5,5,1,6,1,5>>

\* The number the digits ds write in base b is above 2^64 - 1.
Exceeds(ds, b) ==
    LET d == StripZeros(ds)
        m == MaxRepr(b)
    IN \/ Len(d) > Len(m)
       \/ /\ Len(d) = Len(m)
          /\ \E k \in DOMAIN d : d[k] > m[k] /\ \A j \in 1..(k - 1) : d[j] = m[j]

----------------------------------------------------------------------------
(* The claims about the scanner.                                           *)

\* C1: peek_token, called any number of times, leaves the cursor (position,
\* line, column, remaining characters) as it was, returns what next_token
\* would return from there, and the next_token that follows returns what the
\* last peek_token returned.
C1_PeekTokenLeavesCursor ==
    /\ op = "peek_token" => lexer = prev /\ ret = next_token(prev).ret
    /\ op = "next_token" /\ peeked.some => ret = peeked.v

C1_Witness ==
    /\ op = "next_token" /\ peeks = 2 /\ peeked.some
    /\ ret.ok /\ ret.v.kind.tag = "RightArrow"
    /\ prev.location.position = 3 /\ lexer.location.position = 5

\* C8: line and column are at least 1; the position is the UTF-8 length of
\* the characters consumed, the line one more than the newlines consumed,
\* the column one more than the characters consumed since the last newline;
\* no call makes the position or the line smaller.
C8_CursorCounts ==
    /\ lexer.location.line >= 1 /\ lexer.location.column >= 1
    /\ lexer.location = LocOf(lexer.source.text, lexer.chars)
    /\ lexer.location.position >= prev.location.position
    /\ lexer.location.line >= prev.location.line

C8_Witness ==
    /\ op = "next_char" /\ ret = Some("x")
    /\ lexer.location.line = 2 /\ lexer.location.column = 2
    /\ lexer.location.position = 4

\* C5: a literal whose digits are all digits of its base and whose value is at
\* most 2^64 - 1 yields Integer(v), v the number its digits write in its base
\* (16 after 0x, 10 after 0d, 8 after 0o, 2 after 0b, 10 with no prefix), at
\* the location of its first character, with the whole alphanumeric run consumed.
C5_IntegerValue ==
    AtLiteral /\ AllValid(TheLiteral) /\ ~Exceeds(TheLiteral.digits, TheLiteral.base)
    => /\ ret.ok
       /\ ret.v.kind.tag = "Integer"
       /\ ValueIs(ret.v.kind.value, TheLiteral.digits, TheLiteral.base)
       /\ ret.v.location = LocOf(prev.source.text, TheLiteral.start)
       /\ lexer.chars = TheLiteral.end + 1
       /\ lexer.location = LocOf(prev.source.text, TheLiteral.end + 1)

C5_Witness ==
    /\ AtLiteral /\ TheLiteral.base = 8 /\ Len(TheLiteral.digits) = 22
    /\ TheLiteral.start = 3
    /\ ret.ok /\ ret.v.kind = IntegerKind(U64_MAX)

\* C6: a literal whose digits are all digits of its base fails with
\* IntegerTooLarge exactly when its value is above 2^64 - 1, and the error is
\* located at the literal's first character.
C6_IntegerTooLarge ==
    AtLiteral /\ AllValid(TheLiteral)
    => /\ (~ret.ok /\ ret.error.kind.tag = "IntegerTooLarge")
             <=> Exceeds(TheLiteral.digits, TheLiteral.base)
       /\ ~ret.ok => ret.error.location = LocOf(prev.source.text, TheLiteral.start)

C6_Witness ==
    /\ AtLiteral /\ AllValid(TheLiteral) /\ TheLiteral.base = 16
    /\ TheLiteral.start = 3 /\ Len(TheLiteral.digits) = 17
    /\ ~ret.ok /\ ret.error.kind.tag = "IntegerTooLarge"
    /\ ret.error.location = Location(FilePath, 2, 2, 2)

\* C7: the first alphanumeric character of a literal that is no digit of the
\* literal's base, when the digits before it do not overflow, fails with
\* DigitTooLarge{base} located at that character.
C7_DigitTooLarge ==
    AtLiteral /\ ~AllValid(TheLiteral)
    => LET lit == TheLiteral
           k == CHOOSE k \in DOMAIN lit.digits :
                   /\ lit.digits[k] >= lit.base
                   /\ \A j \in 1..(k - 1) : lit.digits[j] < lit.base
       IN ~Exceeds(SubSeq(lit.digits, 1, k - 1), lit.base)
          => /\ ~ret.ok
             /\ ret.error.kind = [tag |-> "DigitTooLarge", base |-> lit.base]
             /\ ret.error.location = LocOf(prev.source.text, lit.first + k - 1)

C7_Witness ==
    /\ AtLiteral /\ TheLiteral.base = 2 /\ TheLiteral.start = 3
    /\ Len(TheLiteral.digits) = 2
    /\ ~ret.ok /\ ret.error.kind = [tag |-> "DigitTooLarge", base |-> 2]
    /\ ret.error.location = Location(FilePath, 5, 2, 5)

----------------------------------------------------------------------------
(* What the claims about the parser speak of: the tokens of the source     *)
(* and the nodes of a tree.                                                *)

RECURSIVE ScanFrom(_)
\* The scanner's results from lx on, up to EOF or to the first error, each
\* with the Lexer before and after it.
ScanFrom(lx) ==
    LET t == next_token(lx)
        entry == [ret |-> t.ret, before |-> lx, after |-> t.self]
    IN IF ~t.ret.ok THEN <<entry>>
       ELSE IF t.ret.v.kind.tag = "EOF" THEN <<entry>>
       ELSE <<entry>> \o ScanFrom(t.self)

\* The kind of the k-th result ("Error" for the scanner's error).
TagAt(ts, k) == IF ts[k].ret.ok THEN ts[k].ret.v.kind.tag ELSE "Error"

\* The kind of the token that starts at loc ("None" when no token does).
TagAtLocation(ts, loc) ==
    LET at == {k \in DOMAIN ts : ts[k].ret.ok /\ ts[k].ret.v.location = loc}
    IN IF at = {} THEN "None" ELSE TagAt(ts, CHOOSE k \in at : TRUE)

RECURSIVE Nodes(_)
\* The node n and every node below it.
Nodes(n) ==
    LET k == n.kind
        all(ns) == UNION {Nodes(ns[i]) : i \in DOMAIN ns}
        opt(o) == IF o.some THEN Nodes(o.v) ELSE {}
    IN {n} \cup
       CASE k.tag \in {"Integer", "Name"} -> {}
         [] k.tag = "Binary" -> Nodes(k.left) \cup Nodes(k.right)
         [] k.tag = "Call" -> Nodes(k.operand) \cup all(k.arguments)
         [] k.tag = "Block" -> all(k.statements)
         [] k.tag = "Function" ->
                all(k.arguments) \cup opt(k.return_type) \cup Nodes(k.body)
         [] k.tag = "Let" /\ "pattern" \in DOMAIN k ->
                Nodes(k.pattern) \cup Nodes(k.value)
         [] k.tag = "Let" /\ "name_token" \in DOMAIN k -> opt(k.typ)
         [] k.tag \in {"Return", "Expression"} -> Nodes(k.expression)

RECURSIVE Shape(_)
\* An expression without its locations.
Shape(n) ==
    CASE n.kind.tag \in {"Integer", "Name"} -> n.kind
      [] n.kind.tag = "Binary" ->
             [tag |-> "Binary", left |-> Shape(n.kind.left),
              operator |-> n.kind.operator, right |-> Shape(n.kind.right)]
      [] n.kind.tag = "Call" ->
             [tag |-> "Call", operand |-> Shape(n.kind.operand),
              arguments |-> [i \in DOMAIN n.kind.arguments |->
                               Shape(n.kind.arguments[i])]]
      [] n.kind.tag = "Block" -> [tag |-> "Block"]

IntLeaf(n) == IntegerKind(U64(n))
NameLeaf(c) == NameKind(<<c>>)
Binary(left, operator, right) ==
    [tag |-> "Binary", left |-> left, operator |-> operator, right |-> right]
Call(operand, arguments) ==
    [tag |-> "Call", operand |-> operand, arguments |-> arguments]

\* The token sequence is primaries separated by + - * /, then EOF.
IsChain(ts) ==
    /\ Len(ts) % 2 = 0
    /\ TagAt(ts, Len(ts)) = "EOF"
    /\ \A k \in 1..(Len(ts) - 1) :
          IF k % 2 = 1 THEN TagAt(ts, k) \in {"Integer", "Name"}
          ELSE TagAt(ts, k) \in {"Plus", "Minus", "Asterisk", "Slash"}

Tightness(tag) == IF tag \in {"Asterisk", "Slash"} THEN 2 ELSE 1

OperatorOf(tag) ==
    CASE tag = "Plus" -> "Add" [] tag = "Minus" -> "Subtract"
      [] tag = "Asterisk" -> "Multiply" [] tag = "Slash" -> "Divide"

RECURSIVE Tree(_, _, _)
\* The tree of the primaries lo..hi of a chain: it splits at the last of the
\* operators that bind least.
Tree(ts, lo, hi) ==
    IF lo = hi THEN ts[lo].ret.v.kind
    ELSE LET ops == {k \in lo..hi : k % 2 = 0}
             loose == {k \in ops : \A j \in ops :
                          Tightness(TagAt(ts, k)) <= Tightness(TagAt(ts, j))}
             k == CHOOSE k \in loose : \A j \in loose : j <= k
         IN Binary(Tree(ts, lo, k - 1), OperatorOf(TagAt(ts, k)), Tree(ts, k + 1, hi))

\* The source the last call was made on is this text, from its start.
CalledOn(name, text) ==
    op = name /\ prev = Lexer_new(FilePath, text)

----------------------------------------------------------------------------
(* The claims about the parser.                                            *)

\* C2: on primaries separated by + - * /, parse_binary_expression with no
\* parent precedence builds the tree in which * and / bind tighter than + and -
\* and operators of equal precedence associate to the left; a parenthesized
\* expression is one primary.
C2_PrecedenceAndAssociativity ==
    /\ op = "parse_expression" /\ IsChain(ScanFrom(prev))
       => LET ts == ScanFrom(prev)
          IN /\ ret.ok
             /\ Shape(ret.v) = Tree(ts, 1, Len(ts) - 1)
             /\ lexer = ts[Len(ts) - 1].after
    /\ CalledOn("parse_expression", <<"1"," ","+"," ","2"," ","*"," ","3">>)
       => ret.ok /\ Shape(ret.v) = Binary(IntLeaf(1), "Add", Binary(IntLeaf(2), "Multiply", IntLeaf(3)))
    /\ CalledOn("parse_expression", <<"1"," ","-"," ","2"," ","-"," ","3">>)
       => ret.ok /\ Shape(ret.v) = Binary(Binary(IntLeaf(1), "Subtract", IntLeaf(2)), "Subtract", IntLeaf(3))
    /\ CalledOn("parse_expression", <<"(","1"," ","+"," ","2",")"," ","*"," ","3">>)
       => ret.ok /\ Shape(ret.v) = Binary(Binary(IntLeaf(1), "Add", IntLeaf(2)), "Multiply", IntLeaf(3))

C2_Witness ==
    /\ CalledOn("parse_expression",
                <<"1"," ","*"," ","2"," ","+"," ","3"," ","/"," ","4"," ","-"," ","5">>)
    /\ ret.ok
    /\ Shape(ret.v) = Binary(Binary(Binary(IntLeaf(1), "Multiply", IntLeaf(2)), "Add",
                                    Binary(IntLeaf(3), "Divide", IntLeaf(4))),
                             "Subtract", IntLeaf(5))

\* No "(" of the token sequence opens a group: each follows a name, an
\* integer, a ")" or a "}".
NoGrouping(ts) ==
    \A k \in DOMAIN ts :
        TagAt(ts, k) = "OpenParenthesis"
        => k > 1 /\ TagAt(ts, k - 1) \in {"Name", "Integer", "CloseParenthesis",
                                          "CloseBrace"}

\* Where the text of an expression ends: the location of its last token.
RECURSIVE LastToken(_)
LastToken(n) ==
    CASE n.kind.tag \in {"Integer", "Name"} -> n.location
      [] n.kind.tag = "Binary" -> LastToken(n.kind.right)
      [] n.kind.tag = "Call" -> n.kind.close_parenthesis
      [] n.kind.tag = "Block" -> n.kind.close_brace

\* Where the text of an expression starts: the location of its first token.
RECURSIVE FirstToken(_)
FirstToken(n) ==
    CASE n.kind.tag \in {"Integer", "Name", "Block"} -> n.location
      [] n.kind.tag = "Binary" -> FirstToken(n.kind.left)
      [] n.kind.tag = "Call" -> FirstToken(n.kind.operand)

\* The location of the token before the one at loc.
TokenBefore(ts, loc) ==
    LET k == CHOOSE k \in DOMAIN ts : ts[k].ret.ok /\ ts[k].ret.v.location = loc
    IN ts[k - 1].ret.v.location

\* C3: without grouping parentheses, an argument list applies to the primary
\* expression or the call that ends just before its "(", never to a Binary
\* node, and the Call keeps its arguments in source order, between its
\* parentheses.
C3_CallBindsTightly ==
    /\ op = "parse_expression" /\ ret.ok /\ NoGrouping(ScanFrom(prev))
       => \A n \in Nodes(ret.v) :
             n.kind.tag = "Call"
             => LET arguments == n.kind.arguments
                IN /\ n.kind.operand.kind.tag \in {"Name", "Integer", "Call", "Block"}
                   /\ TokenBefore(ScanFrom(prev), n.location)
                         = LastToken(n.kind.operand)
                   /\ \A i \in DOMAIN arguments :
                         /\ n.location.position < FirstToken(arguments[i]).position
                         /\ LastToken(arguments[i]).position
                               < n.kind.close_parenthesis.position
                         /\ i > 1 => LastToken(arguments[i - 1]).position
                                        < FirstToken(arguments[i]).position
    /\ CalledOn("parse_expression", <<"f","(","x",")"," ","+"," ","1">>)
       => ret.ok /\ Shape(ret.v) = Binary(Call(NameLeaf("f"), <<NameLeaf("x")>>), "Add", IntLeaf(1))
    /\ CalledOn("parse_expression", <<"1"," ","+"," ","f","(","x",")">>)
       => ret.ok /\ Shape(ret.v) = Binary(IntLeaf(1), "Add", Call(NameLeaf("f"), <<NameLeaf("x")>>))

C3_Witness ==
    /\ op = "parse_expression" /\ ret.ok /\ NoGrouping(ScanFrom(prev))
    /\ ret.v.kind.tag = "Binary"
    /\ \E n \in Nodes(ret.v) :
          /\ n.kind.tag = "Call" /\ Len(n.kind.arguments) = 2
          /\ n.kind.operand.kind.tag = "Call"

\* The tokens of the whole source.
SourceTokens == ScanFrom(Lexer_new(FilePath, lexer.source.text))

\* The node carries the location of the first token of its text.
AtFirstToken(ts, n) ==
    LET k == n.kind
    IN CASE k.tag = "Integer" -> TagAtLocation(ts, n.location) = "Integer"
         [] k.tag = "Name" -> TagAtLocation(ts, n.location) = "Name"
         [] k.tag = "Block" -> TagAtLocation(ts, n.location) = "OpenBrace"
         [] k.tag = "Function" -> TagAtLocation(ts, n.location) = "Fn"
         [] k.tag = "Return" -> TagAtLocation(ts, n.location) = "Return"
         [] k.tag = "Binary" -> n.location = FirstToken(k.left)
         [] k.tag = "Call" -> n.location = FirstToken(k.operand)
         [] k.tag = "Expression" -> n.location = FirstToken(k.expression)
         [] k.tag = "Let" /\ "pattern" \in DOMAIN k ->
                /\ TagAtLocation(ts, n.location) = "Let"
                /\ n.location = k.pattern.location
         [] k.tag = "Let" /\ "name_token" \in DOMAIN k ->
                TagAtLocation(ts, n.location) \in {"Let", "Name"}

\* C4: every node of a successful parse carries the location of the first
\* token of the text it covers.
C4_LocationOfFirstToken ==
    parsed.called /\ parsed.result.ok
    => \A i \in DOMAIN parsed.result.v :
          \A n \in Nodes(parsed.result.v[i]) : AtFirstToken(SourceTokens, n)

\* The result r of a parsing function called where the tokens ts begin is the
\* failure at one of them: the scanner's error as it is, or an error about a
\* token read; the Lexer is left before or after that token, and r holds no
\* node.
StoppedAt(ts, r) ==
    /\ DOMAIN r = {"ok", "error", "lexer"}
    /\ \E k \in DOMAIN ts :
          /\ \A j \in 1..(k - 1) : ts[j].ret.ok
          /\ IF r.error.kind.tag = "LexerError"
             THEN /\ ~ts[k].ret.ok
                  /\ r.error.kind.inner = ts[k].ret.error.kind
                  /\ r.error.location = ts[k].ret.error.location
                  /\ r.lexer \in {ts[k].before, ts[k].after}
             ELSE /\ ts[k].ret.ok
                  /\ r.error.kind.token = ts[k].ret.v.kind
                  /\ r.error.location = ts[k].ret.v.location
                  /\ r.lexer = ts[k].after

\* C9: parse, and every parsing function, stops at the first failure: it
\* returns that error (the scanner's error as LexerError of its kind, at its
\* location), consumes no token after the one that failed, and returns no node.
C9_StopsAtFirstFailure ==
    /\ parsed.called /\ ~parsed.result.ok => StoppedAt(SourceTokens, parsed.result)
    /\ op \in {"expect_token", "parse_expression", "parse_statement", "parse_block"}
       /\ ~ret.ok
       => StoppedAt(ScanFrom(prev), ret)

C9_Witness ==
    /\ parsed.called /\ ~parsed.result.ok
    /\ DOMAIN parsed.result = {"ok", "error", "lexer"}
    /\ Len(SourceTokens) > 7
    /\ TagAt(SourceTokens, 6) = "CloseBrace" /\ TagAt(SourceTokens, 7) = "Fn"
    /\ parsed.result.error.kind = [tag |-> "UnexpectedToken",
                                   token |-> Kind("CloseBrace")]
    /\ parsed.result.error.location = Location(FilePath, 30, 2, 20)

\* C10: expect_token! on a token of another kind fails with UnexpectedToken
\* of the kind found, at the location of the token found; so does parse when
\* the token after fn is no name.
C10_UnexpectedToken ==
    /\ op = "expect_token" /\ next_token(prev).ret.ok
       /\ next_token(prev).ret.v.kind.tag # expected.v
       => /\ ~ret.ok
          /\ ret.error.kind = [tag |-> "UnexpectedToken",
                               token |-> next_token(prev).ret.v.kind]
          /\ ret.error.location = next_token(prev).ret.v.location
    /\ parsed.called /\ Len(SourceTokens) >= 2 /\ TagAt(SourceTokens, 1) = "Fn"
       /\ TagAt(SourceTokens, 2) \notin {"Name", "Error"}
       => /\ ~parsed.result.ok
          /\ parsed.result.error.kind = [tag |-> "UnexpectedToken",
                                         token |-> SourceTokens[2].ret.v.kind]
          /\ parsed.result.error.location = SourceTokens[2].ret.v.location

C10_Witness ==
    /\ parsed.called /\ lexer.source.text = <<"f","n"," ","(">>
    /\ ~parsed.result.ok
    /\ parsed.result.error.kind = [tag |-> "UnexpectedToken",
                                   token |-> Kind("OpenParenthesis")]
    /\ parsed.result.error.location = Location(FilePath, 3, 1, 4)

----------------------------------------------------------------------------
(* The claim about blocks.                                                 *)

\* The index of the token that starts at loc.
IndexAt(ts, loc) ==
    CHOOSE k \in DOMAIN ts : ts[k].ret.ok /\ ts[k].ret.v.location = loc

\* The "}" that matches the "{" at index o: the first after it at which as
\* many braces have closed as have opened (0 when there is none).
MatchingClose(ts, o) ==
    LET opened(k) == Cardinality({j \in o..k : TagAt(ts, j) = "OpenBrace"})
        closed(k) == Cardinality({j \in o..k : TagAt(ts, j) = "CloseBrace"})
        ends == {k \in DOMAIN ts : k > o /\ opened(k) = closed(k)}
    IN IF ends = {} THEN 0 ELSE CHOOSE k \in ends : \A j \in ends : k <= j

\* The first token after index k that is no ")".
AfterParentheses(ts, k) ==
    LET rest == {j \in DOMAIN ts : j > k /\ TagAt(ts, j) # "CloseParenthesis"}
    IN CHOOSE j \in rest : \A i \in rest : j <= i

\* The index of the last token of a statement: the "}" of a function's body,
\* the token after the expression (and the parentheses around it) otherwise.
StatementEnd(ts, n) ==
    CASE n.kind.tag = "Function" -> IndexAt(ts, n.kind.body.kind.close_brace)
      [] n.kind.tag = "Let" -> AfterParentheses(ts, IndexAt(ts, LastToken(n.kind.value)))
      [] OTHER -> AfterParentheses(ts, IndexAt(ts, LastToken(n.kind.expression)))

\* The shape of the statement that the token kind begins.
ShapeFor(tag) ==
    CASE tag = "Fn" -> "Function" [] tag = "Let" -> "Let"
      [] tag = "Return" -> "Return" [] OTHER -> "Expression"

\* The Block b holds the statements between its braces: the first begins
\* after the "{", each of the others after the end of the one before, the "}"
\* recorded follows the last and matches the "{"; each has the shape its
\* first token chooses and ends with ";" (a function with "}").
BlockHolds(ts, b) ==
    LET o == IndexAt(ts, b.location)
        statements == b.kind.statements
        begin(i) == IF i = 1 THEN o + 1 ELSE StatementEnd(ts, statements[i - 1]) + 1
        last == IF statements = <<>> THEN o
                ELSE StatementEnd(ts, statements[Len(statements)])
    IN /\ TagAt(ts, o) = "OpenBrace"
       /\ TagAtLocation(ts, b.kind.close_brace) = "CloseBrace"
       /\ IndexAt(ts, b.kind.close_brace) = MatchingClose(ts, o)
       /\ IndexAt(ts, b.kind.close_brace) = last + 1
       /\ \A i \in DOMAIN statements :
             /\ statements[i].kind.tag = ShapeFor(TagAt(ts, begin(i)))
             /\ statements[i].kind.tag = "Let" => "pattern" \in DOMAIN statements[i].kind
             /\ statements[i].location.position <= ts[begin(i)].ret.v.location.position
             /\ ts[begin(i) - 1].ret.v.location.position < statements[i].location.position
             /\ TagAt(ts, StatementEnd(ts, statements[i]))
                   = IF statements[i].kind.tag = "Function" THEN "CloseBrace"
                     ELSE "Semicolon"

\* C11: parse_block on a well-formed block returns a Block that holds exactly
\* the statements between its braces, in source order, each of the shape its
\* leading token chooses, and whose close_brace is the location of the "}"
\* that matches its "{"; so does every Block inside it and every Block of a
\* parsed program.
C11_BlockStatements ==
    /\ op = "parse_block" /\ ret.ok
       => /\ ret.v.kind.tag = "Block"
          /\ ret.v.location = ScanFrom(prev)[1].ret.v.location
          /\ lexer = ScanFrom(prev)[IndexAt(ScanFrom(prev), ret.v.kind.close_brace)].after
          /\ \A b \in Nodes(ret.v) :
                b.kind.tag = "Block" => BlockHolds(ScanFrom(prev), b)
    /\ parsed.called /\ parsed.result.ok
       => \A i \in DOMAIN parsed.result.v :
             \A b \in Nodes(parsed.result.v[i]) :
                b.kind.tag = "Block" => BlockHolds(SourceTokens, b)
    /\ CalledOn("parse_block",
                <<"{"," ","l","e","t"," ","x"," ","="," ","1",";"," ","r","e","t","u","r","n"," ","x",";"," ","}">>)
       => /\ ret.ok
          /\ Len(ret.v.kind.statements) = 2
          /\ ret.v.kind.statements[1].kind.tag = "Let"
          /\ ret.v.kind.statements[2].kind.tag = "Return"
          /\ ret.v.kind.close_brace = Location(FilePath, 23, 1, 24)

C11_Witness ==
    /\ op = "parse_block" /\ ret.ok
    /\ Len(ret.v.kind.statements) = 4
    /\ ret.v.kind.statements[1].kind.tag = "Expression"
    /\ ret.v.kind.statements[1].kind.expression.kind.tag = "Block"
    /\ ret.v.kind.statements[1].kind.expression.kind.close_brace.position = 7
    /\ ret.v.kind.statements[2].kind.tag = "Function"
    /\ ret.v.kind.statements[3].kind.tag = "Let"
    /\ ret.v.kind.statements[4].kind.tag = "Return"
    /\ ret.v.kind.close_brace.position = Len(prev.source.text) - 1

----------------------------------------------------------------------------
(* The loops of the parser, one iteration at a time.  `loop` holds the     *)
(* name of the loop, the values its variables had when it was entered, and *)
(* what the last iteration came to: the variables for the next iteration,  *)
(* or the result with which the function left the loop.                    *)

\* The values parent_precedence takes (parsing.rs:227 and :263).
ParentPrecedences == {None} \cup {Some(precedence(o)) : o \in {"Add", "Multiply"}}

\* The loops entered at lx, where the tokens of kinds `tags` have been read
\* and parse_primary_expression comes to `operand`: the parameters after
\* "fn name (", the arguments after the "(" that follows an operand, the
\* statements after "{", the loop of parse_binary_expression after its first
\* operand.
EntriesAt(lx, tags, operand) ==
    LET n == Len(tags)
        at(k) == IF k \in DOMAIN tags THEN tags[k] ELSE "None"
        parameters == at(n) = "OpenParenthesis" /\ at(n - 1) = "Name" /\ at(n - 2) = "Fn"
        arguments == /\ at(n) = "OpenParenthesis" /\ ~parameters
                     /\ at(n - 1) \in {"Name", "Integer", "CloseParenthesis", "CloseBrace"}
    IN {[name |-> "FnArgumentsIteration", args |-> <<lx, <<>>>>] : k \in {1} \cap {IF parameters THEN 1 ELSE 0}}
       \cup {[name |-> "CallArgumentsIteration", args |-> <<lx, <<>>>>] : k \in {1} \cap {IF arguments THEN 1 ELSE 0}}
       \cup {[name |-> "BlockIteration", args |-> <<lx, <<>>>>] : k \in {1} \cap {IF at(n) = "OpenBrace" THEN 1 ELSE 0}}
       \cup {[name |-> "BinaryIteration", args |-> <<operand.lexer, operand.v, p>>] :
                 p \in IF operand.ok THEN ParentPrecedences ELSE {}}

\* The loops entered from lx on, up to EOF or to the scanner's first error.
RECURSIVE EntriesFrom(_, _)
EntriesFrom(lx, tags) ==
    UNION {EntriesAt(lx, tags, operand)
           \cup IF t.ok /\ t.v.kind.tag # "EOF"
                THEN EntriesFrom(t.lexer, Append(tags, t.v.kind.tag))
                ELSE {} :
              t \in {Rec("next_token", <<lx>>)},
              operand \in {Rec("parse_primary_expression", <<lx>>)}}

\* The states in which the five loops are entered while `text` is parsed:
\* the loop of parse at the start, the others where their tokens are.
LoopEntries(text) ==
    {[name |-> "ParseIteration", args |-> <<Lexer_new(FilePath, text), <<>>>>]}
    \cup EntriesFrom(Lexer_new(FilePath, text), <<>>)

\* The heads the loop comes to from `head`, this one included.
RECURSIVE HeadsFrom(_, _)
HeadsFrom(head, seen) ==
    IF head \in seen THEN seen
    ELSE UNION {IF it.again
                THEN HeadsFrom([name |-> head.name, args |-> it.args],
                               seen \cup {head})
                ELSE seen \cup {head} :
                   it \in {Rec(head.name, head.args)}}

\* The sources the loops are run on: the examples, and the program cut after
\* every character.
LoopSources == ExprExamples \cup BlockExamples \cup ProgExamples \cup ProgramCuts

Entries == UNION {LoopEntries(source) : source \in LoopSources}

\* The iterations, tabulated over the heads the loops come to.
Iterations ==
    [head \in UNION {HeadsFrom(entry, {}) : entry \in Entries} |->
        Rec(head.name, head.args)]

InitLoops ==
    /\ \E entry \in Entries :
          /\ lexer = entry.args[1]
          /\ loop = [called |-> TRUE, name |-> entry.name, entered |-> entry.args,
                     it |-> Again(entry.args)]
    /\ op = "new"
    /\ ret = None
    /\ prev = lexer
    /\ peeked = None
    /\ peeks = 0
    /\ calls = 0
    /\ expected = None
    /\ parsed = NotCalled
    /\ printed = NotCalled

\* The loop `name` is at its head.
AtHead(name) == loop.called /\ loop.name = name /\ loop.it.again

\* The iteration from the head the loop is at: the Lexer is the one it left.
Iterated ==
    \E it \in {Iterations[[name |-> loop.name, args |-> loop.it.args]]} :
       /\ loop' = [loop EXCEPT !.it = it]
       /\ lexer' = IF it.again THEN it.args[1] ELSE it.result.lexer
       /\ UNCHANGED <<op, ret, prev, peeked, peeks, calls, expected, parsed, printed>>

ParseLoop == AtHead("ParseIteration") /\ Iterated

ParameterLoop == AtHead("FnArgumentsIteration") /\ Iterated

ArgumentLoop == AtHead("CallArgumentsIteration") /\ Iterated

BlockLoop == AtHead("BlockIteration") /\ Iterated

OperatorLoop == AtHead("BinaryIteration") /\ Iterated

NextLoops == ParseLoop \/ ParameterLoop \/ ArgumentLoop \/ BlockLoop \/ OperatorLoop

\* The program is sequential: a loop that can run its next iteration does.
SpecLoops == InitLoops /\ [][NextLoops]_vars /\ WF_vars(NextLoops)

\* The tokens an iteration consumed: how many of the tokens scanned from
\* `before` lie before `after` (0 when `after` is no place between them).
Consumed(before, after) ==
    LET ts == ScanFrom(before)
        ends == {k \in DOMAIN ts : ts[k].after = after}
    IN IF ends = {} THEN 0 ELSE CHOOSE k \in ends : TRUE

\* The loop has been left with an error at the end of the file.
ErrorAtEndOfFile ==
    /\ ~loop.it.again /\ ~loop.it.result.ok
    /\ TagAtLocation(ScanFrom(Lexer_new(FilePath, lexer.source.text)),
                     loop.it.result.error.location) = "EOF"

\* C12: parse terminates on every source with Ok or Err: each of the five
\* loops is left at last; an iteration after which the loop runs again has
\* consumed at least one token; the loop of parse is left with what parse
\* returns; and "fn f(" and "fn f() {" end in an error at the end of the file.
C12_Terminates ==
    /\ <>(~loop.it.again)
    /\ [][loop'.it.again => Consumed(lexer, lexer') >= 1]_vars
    /\ [](~loop.it.again /\ loop.name = "ParseIteration"
          => /\ loop.it.result = parse(FilePath, lexer.source.text)
             /\ DOMAIN loop.it.result \in {{"ok", "v", "lexer"}, {"ok", "error", "lexer"}})
    /\ [](~loop.it.again /\ loop.name = "ParseIteration"
           /\ lexer.source.text \in {<<"f","n"," ","f","(">>,
                                     <<"f","n"," ","f","(",")"," ","{">>}
          => ErrorAtEndOfFile)

C12_Witness ==
    /\ loop.called /\ loop.name = "ParseIteration"
    /\ lexer.source.text = <<"f","n"," ","f","(",")"," ","{">>
    /\ ErrorAtEndOfFile

----------------------------------------------------------------------------
(* The claim about pretty printing.                                       *)

RECURSIVE Structure(_)
\* A node without its locations, and without those of the nodes below it.
Structure(n) ==
    LET k == n.kind
        each(ns) == [i \in DOMAIN ns |-> Structure(ns[i])]
        opt(o) == IF o.some THEN Some(Structure(o.v)) ELSE None
    IN CASE k.tag \in {"Integer", "Name"} -> k
         [] k.tag = "Binary" ->
                [tag |-> "Binary", left |-> Structure(k.left),
                 operator |-> k.operator, right |-> Structure(k.right)]
         [] k.tag = "Call" ->
                [tag |-> "Call", operand |-> Structure(k.operand),
                 arguments |-> each(k.arguments)]
         [] k.tag = "Block" -> [tag |-> "Block", statements |-> each(k.statements)]
         [] k.tag = "Function" ->
                [tag |-> "Function", name |-> k.name.kind,
                 arguments |-> each(k.arguments),
                 return_type |-> opt(k.return_type), body |-> Structure(k.body)]
         [] k.tag = "Let" /\ "pattern" \in DOMAIN k ->
                [tag |-> "Let", pattern |-> Structure(k.pattern),
                 value |-> Structure(k.value)]
         [] k.tag = "Let" /\ "name_token" \in DOMAIN k ->
                [tag |-> "Pattern", name |-> k.name_token.kind, typ |-> opt(k.typ)]
         [] k.tag \in {"Return", "Expression"} ->
                [tag |-> k.tag, expression |-> Structure(k.expression)]

\* C13: pretty printing round-trips: the text written for the nodes that
\* parse returned is accepted by parse, and parsing it yields the same nodes
\* when locations are ignored.
C13_PrettyPrintRoundTrips ==
    printed.called
    => \A again \in {parse(FilePath, printed.text)} :
          /\ again.ok
          /\ Len(again.v) = Len(parsed.result.v)
          /\ \A i \in DOMAIN parsed.result.v :
                Structure(again.v[i]) = Structure(parsed.result.v[i])

C13_Witness ==
    /\ printed.called
    /\ printed.text # lexer.source.text
    /\ \E n \in UNION {Nodes(parsed.result.v[i]) : i \in DOMAIN parsed.result.v} :
          /\ n.kind.tag = "Binary"
          /\ n.kind.left.kind.tag = "Integer"
          /\ n.kind.right.kind.tag = "Binary"
          /\ n.kind.right.kind.operator = n.kind.operator
    /\ \E n \in UNION {Nodes(parsed.result.v[i]) : i \in DOMAIN parsed.result.v} :
          n.kind.tag = "Let" /\ "name_token" \in DOMAIN n.kind /\ n.kind.typ.some
    /\ \E n \in UNION {Nodes(parsed.result.v[i]) : i \in DOMAIN parsed.result.v} :
          n.kind.tag = "Call" /\ Len(n.kind.arguments) = 2


----------------------------------------------------------------------------
(* The two views of the scanner's position: the iterator and the cursor.   *)

\* Peekable<CharIndices>::peek: the item the iterator yields next, the byte
\* index of a character and the character, or None when it is exhausted.
chars_peek(self) ==
    IF self.chars > Len(self.source.text) THEN None
    ELSE Some(<<self.source.index[self.chars], self.source.text[self.chars]>>)

\* The debug assertion of next_char: the byte index of the item taken from the
\* iterator is the recorded position (nothing is asserted when there is no item).
debug_assert_eq(self) ==
    chars_peek(self).some => chars_peek(self).v[1] = self.location.position

\* C14: in every state reached by next_char, next_token, peek_char and
\* peek_token, the byte index of the iterator's next item is the recorded
\* position, or the iterator is exhausted and the position is the length of the
\* source in bytes; so the assertion of next_char holds, and peek_char returns
\* the character next_char would consume next.
C14_ViewsAgree ==
    /\ IF chars_peek(lexer).some
       THEN chars_peek(lexer).v[1] = lexer.location.position
       ELSE lexer.location.position = str_len(lexer.source)
    /\ debug_assert_eq(lexer)
    /\ peek_char(lexer) = next_char(lexer).ret

\* After a peek_token and a next_token that consumed a two-byte character, a
\* newline and a name, with characters left.
C14_Witness ==
    /\ op = "next_token" /\ peeked.some
    /\ ret.ok /\ ret.v.kind.tag = "Name"
    /\ lexer.chars = 4 /\ lexer.location.position = 4
    /\ chars_peek(lexer) = Some(<<4, " ">>)
    /\ peek_char(lexer) = Some(" ")


----------------------------------------------------------------------------
(* The claim about parameter lists and argument lists.                     *)

\* The first item that is out of place, 0 when none is: elements stand at the
\* odd places of a list and commas at the even ones.
Fault(items) ==
    LET faults == {i \in DOMAIN items : (i % 2 = 1) = (items[i] = ",")}
    IN IF faults = {} THEN 0 ELSE CHOOSE i \in faults : \A j \in faults : i <= j

\* The elements of a list without fault, in the order of the text.
ElementsOf(items) ==
    [k \in 1..((Len(items) + 1) \div 2) |-> Lexeme(items, 2 * k - 1)]

\* The location of item i, in a text where the list starts after `before`
\* characters.
ItemLocation(text, items, i, before) ==
    LocOf(text, before + Len(ListText(SubSeq(items, 1, i))) - Len(Lexeme(items, i)) + 1)

\* What the text of the items comes to: r is the result, list the elements of
\* an accepted r, name the name of an element, expectedElement the error of the
\* function that parses an element.
ListOutcome(text, items, before, r, list, name, expectedElement) ==
    IF Fault(items) = 0
    THEN /\ r.ok
         /\ Len(list) = Len(ElementsOf(items))
         /\ \A k \in DOMAIN list :
               /\ name[k] = ElementsOf(items)[k]
               /\ list[k].location = ItemLocation(text, items, 2 * k - 1, before)
    ELSE /\ ~r.ok
         /\ r.error.location = ItemLocation(text, items, Fault(items), before)
         /\ r.error.kind =
               IF items[Fault(items)] = ","
               THEN [tag |-> expectedElement, token |-> Kind("Comma")]
               ELSE [tag |-> "UnexpectedToken",
                     token |-> NameKind(Lexeme(items, Fault(items)))]

\* The list of a text that is accepted: the arguments of the call, the
\* parameters of the only function.
ArgumentsOf(text) == Rec("parse_expression", <<Lexer_new(FilePath, text)>>).v.kind.arguments
ParametersOf(text) == parse(FilePath, text).v[1].kind.arguments

\* C15: in a call's argument list and a function's parameter list, elements
\* with one comma after each but, at will, the last are accepted, and the list
\* has one entry per element, in the order of the text, the same with the
\* trailing comma as without; an element where a comma must stand fails with
\* UnexpectedToken of the element's first token, at that token; a comma where
\* an element must stand fails with ExpectedExpression (arguments) or
\* ExpectedPattern (parameters) of the comma, at the comma.
C15_CommaSeparatedLists ==
    /\ op = "parse_expression" /\ prev.chars = 1
       /\ Len(prev.source.text) >= 2 /\ SubSeq(prev.source.text, 1, 2) = <<"f","(">>
       => \A items \in ListSeqs :
             prev.source.text = CallText(items)
             => /\ \A arguments \in {IF ret.ok THEN ret.v.kind.arguments ELSE <<>>} :
                      ListOutcome(prev.source.text, items, 2, ret, arguments,
                                  [k \in DOMAIN arguments |-> arguments[k].kind.name],
                                  "ExpectedExpression")
                /\ Fault(items) = 0 /\ Len(items) % 2 = 0 /\ items # <<>>
                   => ret.v.kind.arguments
                      = ArgumentsOf(CallText(SubSeq(items, 1, Len(items) - 1)))
    /\ parsed.called
       /\ Len(lexer.source.text) >= 5
       /\ SubSeq(lexer.source.text, 1, 5) = <<"f","n"," ","f","(">>
       => \A items \in ListSeqs :
             lexer.source.text = FnText(items)
             => /\ \A arguments \in {IF parsed.result.ok
                                     THEN parsed.result.v[1].kind.arguments ELSE <<>>} :
                      ListOutcome(lexer.source.text, items, 5, parsed.result, arguments,
                                  [k \in DOMAIN arguments |->
                                      arguments[k].kind.name_token.kind.name],
                                  "ExpectedPattern")
                /\ Fault(items) = 0 /\ Len(items) % 2 = 0 /\ items # <<>>
                   => parsed.result.v[1].kind.arguments
                      = ParametersOf(FnText(SubSeq(items, 1, Len(items) - 1)))
    /\ op = "parse_expression" /\ prev.chars = 1
       => /\ prev.source.text = <<"f","(","a"," ","+"," ","1",","," ","g","(","b",")",",",")">>
             => /\ ret.ok /\ Len(ret.v.kind.arguments) = 2
                /\ ret.v.kind.arguments[1].kind.tag = "Binary"
                /\ ret.v.kind.arguments[2].kind.tag = "Call"
                /\ ret.v.kind.arguments
                   = ArgumentsOf(<<"f","(","a"," ","+"," ","1",","," ","g","(","b",")",")">>)
          /\ prev.source.text = <<"f","(","a"," ","+"," ","1"," ","g","(","b",")",")">>
             => /\ ~ret.ok
                /\ ret.error.kind = [tag |-> "UnexpectedToken", token |-> NameKind(<<"g">>)]
                /\ ret.error.location = Location(FilePath, 8, 1, 9)
    /\ parsed.called
       => /\ lexer.source.text
             = <<"f","n"," ","f","(","a",":"," ","i",","," ","l","e","t"," ","b",",",")"," ","{","}">>
             => /\ parsed.result.ok /\ Len(parsed.result.v[1].kind.arguments) = 2
                /\ parsed.result.v[1].kind.arguments[1].kind.typ.some
                /\ parsed.result.v[1].kind.arguments[2].kind.name_token.kind.name = <<"b">>
                /\ parsed.result.v[1].kind.arguments
                   = ParametersOf(<<"f","n"," ","f","(","a",":"," ","i",","," ","l","e","t"," ","b",")"," ","{","}">>)
          /\ lexer.source.text
             = <<"f","n"," ","f","(","a",":"," ","i"," ","l","e","t"," ","b",")"," ","{","}">>
             => /\ ~parsed.result.ok
                /\ parsed.result.error.kind = [tag |-> "UnexpectedToken", token |-> Kind("Let")]
                /\ parsed.result.error.location = Location(FilePath, 10, 1, 11)

\* parse_expression has returned the call of "f(a, c,)": two arguments, a then c.
C15_Witness ==
    /\ op = "parse_expression" /\ prev.chars = 1
    /\ prev.source.text = CallText(<<"element", ",", "element", ",">>)
    /\ ret.ok /\ ret.v.kind.tag = "Call"
    /\ Len(ret.v.kind.arguments) = 2
    /\ ret.v.kind.arguments[1].kind.name = <<"a">>
    /\ ret.v.kind.arguments[2].kind.name = <<"c">>

=============================================================================
